---- MODULE Spec2Model ----
(***************************************************************************)
(* Model of the lead-disposition control plane: the contact state machine  *)
(* (state_machine.py), the campaign fill engine (campaign_fill.py), the    *)
(* first-mover ownership protocol (deconfliction.py) and the store calls   *)
(* they make (core/database.py).  Every store call is one atomic step: the *)
(* code commits after each statement and suspends at each await, so the    *)
(* states between two calls of one operation are visible to other callers. *)
(***************************************************************************)
EXTENDS Integers, Sequences, FiniteSets, TLC

(***************************************************************************)
(* Bounds of the model.                                                    *)
(***************************************************************************)
MaxTicks == 1
MaxImportTick == 0
MaxHist == 3
MaxOwnLog == 1
MaxVolume == 2
MaxCapVolume == 4

(***************************************************************************)
(* core/config.py: Settings defaults.                                      *)
(***************************************************************************)
tam_warning_weeks == 8
tam_critical_weeks == 4
\* waterfall_provider_order.split(","), each name stripped.
waterfall_provider_order == << "internal", "ai_ark", "clay", "jina", "spider" >>
cooldown_no_response_days == 90
cooldown_neutral_reply_days == 45
cooldown_negative_reply_days == 180
cooldown_lost_closed_days == 90
ownership_duration_months == 12
max_contacts_per_company == 3
stale_data_months == 6
\* fresh_retouch_ratio = 0.7, kept in tenths
fresh_retouch_ratio == 7

\* The clock advances in steps of one ownership duration: every cooldown, the
\* staleness of data and an ownership run out within one step.
TickDays == ownership_duration_months * 30
MaxTime == MaxTicks * TickDays

\* SQL NULL / Python None for a timestamp, an owner, an optional request field.
NoTime == -1
NoOwner == "none"
NoInt == -1

(***************************************************************************)
(* core/models.py: enums.                                                  *)
(***************************************************************************)
FRESH == "fresh"
IN_SEQUENCE == "in_sequence"
COMPLETED_NO_RESPONSE == "completed_no_response"
REPLIED_POSITIVE == "replied_positive"
REPLIED_NEUTRAL == "replied_neutral"
REPLIED_NEGATIVE == "replied_negative"
REPLIED_HARD_NO == "replied_hard_no"
BOUNCED == "bounced"
UNSUBSCRIBED == "unsubscribed"
RETOUCH_ELIGIBLE == "retouch_eligible"
STALE_DATA == "stale_data"
JOB_CHANGE_DETECTED == "job_change_detected"
WON_CUSTOMER == "won_customer"
LOST_CLOSED == "lost_closed"

DispositionStatus ==
    { FRESH, IN_SEQUENCE, COMPLETED_NO_RESPONSE, REPLIED_POSITIVE, REPLIED_NEUTRAL,
      REPLIED_NEGATIVE, REPLIED_HARD_NO, BOUNCED, UNSUBSCRIBED, RETOUCH_ELIGIBLE,
      STALE_DATA, JOB_CHANGE_DETECTED, WON_CUSTOMER, LOST_CLOSED }

CompanyStatus == { "fresh", "active", "cooling", "suppressed", "customer" }

Channel == { "email", "linkedin", "phone" }

(***************************************************************************)
(* state_machine.py: the legal transition map and the terminal states.     *)
(***************************************************************************)
TRANSITIONS ==
    [ s \in DispositionStatus |->
        CASE s = FRESH -> { IN_SEQUENCE, STALE_DATA, JOB_CHANGE_DETECTED }
          [] s = IN_SEQUENCE ->
                { COMPLETED_NO_RESPONSE, REPLIED_POSITIVE, REPLIED_NEUTRAL,
                  REPLIED_NEGATIVE, REPLIED_HARD_NO, BOUNCED, UNSUBSCRIBED }
          [] s = COMPLETED_NO_RESPONSE ->
                { RETOUCH_ELIGIBLE, STALE_DATA, JOB_CHANGE_DETECTED }
          [] s = REPLIED_POSITIVE -> { WON_CUSTOMER, LOST_CLOSED }
          [] s = REPLIED_NEUTRAL -> { RETOUCH_ELIGIBLE, STALE_DATA }
          [] s = REPLIED_NEGATIVE -> { RETOUCH_ELIGIBLE, STALE_DATA }
          [] s = RETOUCH_ELIGIBLE ->
                { IN_SEQUENCE, STALE_DATA, JOB_CHANGE_DETECTED }
          [] s = STALE_DATA -> { FRESH, RETOUCH_ELIGIBLE }
          [] s = JOB_CHANGE_DETECTED -> { FRESH }
          [] s = LOST_CLOSED -> { RETOUCH_ELIGIBLE }
          [] OTHER -> {} ]

TERMINAL_STATES == { REPLIED_HARD_NO, BOUNCED, UNSUBSCRIBED, WON_CUSTOMER }

\* A validation that lets every request through.
validate_transition_skipped(current, target) == TRUE

\* A validation that only refuses to leave a terminal state.
validate_transition_terminal_only(current, target) ==
    \/ current = target
    \/ current \notin TERMINAL_STATES

\* StateMachine._validate_transition: TRUE when it returns, FALSE when it
\* raises TransitionError.
validate_transition(current, target) ==
    \/ current = target
    \/ target \in TRANSITIONS[current]

\* StateMachine._get_cooldown: days, or NoTime for None.
get_cooldown(new_status) ==
    CASE new_status = COMPLETED_NO_RESPONSE -> cooldown_no_response_days
      [] new_status = REPLIED_NEUTRAL -> cooldown_neutral_reply_days
      [] new_status = REPLIED_NEGATIVE -> cooldown_negative_reply_days
      [] new_status = LOST_CLOSED -> cooldown_lost_closed_days
      [] OTHER -> NoTime

\* _get_suppression without the entry for BOUNCED.
get_suppression_bounced_unflagged(new_status) ==
    CASE new_status = REPLIED_HARD_NO -> { "email", "linkedin", "phone" }
      [] new_status = UNSUBSCRIBED -> { "email" }
      [] OTHER -> {}

\* StateMachine._get_suppression: the channels whose flag is set to True.
get_suppression(new_status) ==
    CASE new_status = REPLIED_HARD_NO -> { "email", "linkedin", "phone" }
      [] new_status \in { BOUNCED, UNSUBSCRIBED } -> { "email" }
      [] OTHER -> {}

(***************************************************************************)
(* The bounded universe: clients, contact identities (email, client_id)    *)
(* with the company domain the importer derives for each email, workers.   *)
(***************************************************************************)
Clients == { "client_1", "client_2" }

Emails == { "a@acme.com", "b@acme.com", "z@zeta.io" }

\* importer.py _import_reader: domain = email.split("@")[1].
DomainOf(email) == IF email = "z@zeta.io" THEN "zeta.io" ELSE "acme.com"

Domains == { DomainOf(e) : e \in Emails }

ContactKeys ==
    { <<"a@acme.com", "client_1">>, <<"b@acme.com", "client_1">>,
      <<"a@acme.com", "client_2">> }

Workers == { "w1", "w2" }

VARIABLES
    contacts,       \* table contacts: (email, client_id) -> row
    companies,      \* table companies: domain -> row
    history,        \* table disposition_history, in insertion order
    assignments,    \* table campaign_assignments, in insertion order
    ownership_log,  \* table client_ownership, in insertion order
    tam_snapshots,  \* table tam_snapshots, in insertion order
    now,            \* the clock, in days
    active,         \* the workers that issue operations
    pc,             \* per worker: the store call it is suspended before
    loc,            \* per worker: the local variables of its operation
    res             \* per worker: what its last operation returned or raised

db == <<contacts, companies, history, assignments, ownership_log, tam_snapshots>>
vars == <<contacts, companies, history, assignments, ownership_log, tam_snapshots,
          now, active, pc, loc, res>>

(***************************************************************************)
(* core/database.py: rows and single-statement store calls.                *)
(***************************************************************************)
\* The contacts row bulk_create_contacts inserts (schema defaults for the
\* columns it does not name).
NewContactRow(email, title, enriched_at) ==
    [ company_domain |-> DomainOf(email),
      last_known_title |-> title,
      disposition_status |-> FRESH,
      email_last_contacted |-> NoTime,
      linkedin_last_contacted |-> NoTime,
      phone_last_contacted |-> NoTime,
      email_cooldown_until |-> NoTime,
      linkedin_cooldown_until |-> NoTime,
      phone_cooldown_until |-> NoTime,
      email_suppressed |-> FALSE,
      linkedin_suppressed |-> FALSE,
      phone_suppressed |-> FALSE,
      data_enriched_at |-> enriched_at,
      sequence_count |-> 0 ]

\* The companies row _ensure_company inserts (schema defaults).
NewCompanyRow ==
    [ company_status |-> "fresh",
      company_suppressed |-> FALSE,
      contacts_total |-> 0,
      contacts_in_sequence |-> 0,
      contacts_touched |-> 0,
      last_contact_date |-> NoTime,
      is_customer |-> FALSE,
      client_owner_id |-> NoOwner,
      client_owned_at |-> NoTime,
      ownership_expires_at |-> NoTime ]

\* Database.update_contact_fields: UPDATE contacts SET ... WHERE email, client_id.
update_contact_fields(tbl, key, fields) ==
    IF key \in DOMAIN tbl THEN [ tbl EXCEPT ![key] = fields @@ @ ] ELSE tbl

\* Database.update_company_fields: UPDATE companies SET ... WHERE domain.
update_company_fields(tbl, domain, fields) ==
    IF domain \in DOMAIN tbl THEN [ tbl EXCEPT ![domain] = fields @@ @ ] ELSE tbl

\* Database.insert_history.
insert_history(tbl, key, previous_status, new_status, triggered_by, campaign_id, at) ==
    Append(tbl, [ created_at |-> at,
                  contact_email |-> key[1],
                  contact_client_id |-> key[2],
                  previous_status |-> previous_status,
                  new_status |-> new_status,
                  triggered_by |-> triggered_by,
                  campaign_id |-> campaign_id ])

\* Database.insert_ownership_change.
insert_ownership_change(tbl, domain, previous_owner_id, new_owner_id, reason, at) ==
    Append(tbl, [ company_domain |-> domain,
                  previous_owner_id |-> previous_owner_id,
                  new_owner_id |-> new_owner_id,
                  change_reason |-> reason,
                  changed_at |-> at ])

\* Database.insert_assignment.
insert_assignment(tbl, key, campaign_id, client_id, channel) ==
    Append(tbl, [ contact_email |-> key[1],
                  contact_client_id |-> key[2],
                  campaign_id |-> campaign_id,
                  client_id |-> client_id,
                  channel |-> channel ])

\* Database.get_contacts_by_domain, as the set of keys of the rows selected.
get_contacts_by_domain(tbl, domain) ==
    { k \in DOMAIN tbl : tbl[k].company_domain = domain }

\* Database.get_company: the row, or NoCompany for None.
NoCompany == [ missing |-> TRUE ]
get_company(tbl, domain) == IF domain \in DOMAIN tbl THEN tbl[domain] ELSE NoCompany

\* An empty **fields dictionary.
NoFields == <<>>

\* Rows come back in this order when a query states none (and on ORDER BY ties).
KeyOrder ==
    << <<"a@acme.com", "client_1">>, <<"b@acme.com", "client_1">>,
       <<"a@acme.com", "client_2">> >>


\* The keys of a set, as a list in row order.
RowsOf(keys) == SelectSeq(KeyOrder, LAMBDA k : k \in keys)

Max(a, b) == IF a >= b THEN a ELSE b
Min(a, b) == IF a <= b THEN a ELSE b

(***************************************************************************)
(* Titles and keywords are strings, kept as sequences of characters.       *)
(***************************************************************************)
NullTitle == << "NULL" >>

\* Python str.lower() / SQL LOWER() on the characters of the model.
LowerChar(ch) ==
    CASE ch = "V" -> "v"
      [] ch = "P" -> "p"
      [] ch = "C" -> "c"
      [] ch = "T" -> "t"
      [] ch = "O" -> "o"
      [] OTHER -> ch

Lower(str) == [ i \in DOMAIN str |-> LowerChar(str[i]) ]

\* SQL: text LIKE pattern (% any run of characters, _ any one character).
RECURSIVE Like(_, _)
Like(pattern, text) ==
    IF pattern = <<>> THEN text = <<>>
    ELSE IF Head(pattern) = "%"
    THEN \/ Like(Tail(pattern), text)
         \/ text # <<>> /\ Like(pattern, Tail(text))
    ELSE IF Head(pattern) = "_"
    THEN text # <<>> /\ Like(Tail(pattern), Tail(text))
    ELSE /\ text # <<>>
         /\ Head(text) = Head(pattern)
         /\ Like(Tail(pattern), Tail(text))

\* query_eligible_contacts lines 677-682: the title clause.  A NULL title
\* makes every LIKE NULL, and the row is not selected.
TitleClause(title, title_keywords) ==
    \/ title_keywords = <<>>
    \/ /\ title # NullTitle
       /\ \E i \in DOMAIN title_keywords :
            Like(<< "%" >> \o Lower(title_keywords[i]) \o << "%" >>, Lower(title))

\* importer.py: the title column of the CSV row of each email.
TitleOf(email) == << "v", "p" >>

(***************************************************************************)
(* core/database.py: Database.query_eligible_contacts.                     *)
(***************************************************************************)
\* timedelta(days=180) of line 669.
eligibility_stale_days == 180

\* status_filter or ["fresh", "retouch_eligible"].
EffectiveStatuses(status_filter) ==
    IF status_filter = {} THEN { FRESH, RETOUCH_ELIGIBLE } ELSE status_filter

\* An ownership test that lets every client through.
OwnerClauseOpen(owner, client_id) == TRUE

\* Line 695: co.client_owner_id = ? OR co.client_owner_id IS NULL.
OwnerClause(owner, client_id) == owner = client_id \/ owner = NoOwner

\* The WHERE clause (lines 689-697) on a contacts row c of client c_client
\* joined to its companies row co.
WhereEligible(c, c_client, co, client_id, channel, status_filter, title_keywords, at) ==
    /\ c_client = client_id
    /\ c.disposition_status \in EffectiveStatuses(status_filter)
    /\ c[channel \o "_suppressed"] = FALSE
    /\ (c[channel \o "_cooldown_until"] = NoTime \/ c[channel \o "_cooldown_until"] <= at)
    /\ co.company_suppressed = FALSE
    /\ co.is_customer = FALSE
    /\ OwnerClause(co.client_owner_id, client_id)
    /\ (c.data_enriched_at = NoTime \/ c.data_enriched_at > at - eligibility_stale_days)
    /\ TitleClause(c.last_known_title, title_keywords)

\* ORDER BY (lines 698-701): fresh first, data_enriched_at DESC (NULL last),
\* sequence_count ASC; ties in row order.
OrderBefore(ctbl, k1, k2) ==
    LET rank(k) == IF ctbl[k].disposition_status = FRESH THEN 0 ELSE 1
        pos(k) == CHOOSE i \in DOMAIN KeyOrder : KeyOrder[i] = k
    IN  \/ rank(k1) < rank(k2)
        \/ /\ rank(k1) = rank(k2)
           /\ \/ ctbl[k1].data_enriched_at > ctbl[k2].data_enriched_at
              \/ /\ ctbl[k1].data_enriched_at = ctbl[k2].data_enriched_at
                 /\ \/ ctbl[k1].sequence_count < ctbl[k2].sequence_count
                    \/ /\ ctbl[k1].sequence_count = ctbl[k2].sequence_count
                       /\ pos(k1) < pos(k2)

RECURSIVE Ordered(_, _)
Ordered(ctbl, keys) ==
    IF keys = {} THEN <<>>
    ELSE LET first == CHOOSE k \in keys : \A o \in keys \ { k } : OrderBefore(ctbl, k, o)
         IN  << first >> \o Ordered(ctbl, keys \ { first })

\* The Contact object built from a selected row: what fill reads of it.
ContactOf(ctbl, k) ==
    [ key |-> k,
      company_domain |-> ctbl[k].company_domain,
      disposition_status |-> ctbl[k].disposition_status,
      sequence_count |-> ctbl[k].sequence_count ]

query_eligible_contacts(ctbl, cotbl, client_id, channel, title_keywords, limit, status_filter, at) ==
    LET rows == { k \in DOMAIN ctbl :
                    /\ ctbl[k].company_domain \in DOMAIN cotbl
                    /\ WhereEligible(ctbl[k], k[2], cotbl[ctbl[k].company_domain],
                                     client_id, channel, status_filter, title_keywords, at) }
        sorted == Ordered(ctbl, rows)
    IN  [ i \in 1..Min(limit, Len(sorted)) |-> ContactOf(ctbl, sorted[i]) ]

(***************************************************************************)
(* campaign_fill.py: the selection of CampaignFillEngine.fill.             *)
(***************************************************************************)
\* dict.get(domain, 0)
CountOf(counts, domain) == IF domain \in DOMAIN counts THEN counts[domain] ELSE 0

\* A cap that lets one contact too many through.
RECURSIVE apply_company_cap_off_by_one(_, _, _)
apply_company_cap_off_by_one(list, max_per_company, existing_counts) ==
    IF list = <<>> THEN <<>>
    ELSE LET c == Head(list)
             current == CountOf(existing_counts, c.company_domain)
         IN  IF current <= max_per_company
             THEN << c >> \o apply_company_cap_off_by_one(Tail(list), max_per_company,
                        (c.company_domain :> current + 1) @@ existing_counts)
             ELSE apply_company_cap_off_by_one(Tail(list), max_per_company, existing_counts)

\* CampaignFillEngine._apply_company_cap.
RECURSIVE apply_company_cap(_, _, _)
apply_company_cap(list, max_per_company, existing_counts) ==
    IF list = <<>> THEN <<>>
    ELSE LET c == Head(list)
             current == CountOf(existing_counts, c.company_domain)
         IN  IF current < max_per_company
             THEN << c >> \o apply_company_cap(Tail(list), max_per_company,
                                               (c.company_domain :> current + 1) @@ existing_counts)
             ELSE apply_company_cap(Tail(list), max_per_company, existing_counts)

\* CampaignFillEngine._count_by_company.
count_by_company(list) ==
    [ d \in { list[i].company_domain : i \in DOMAIN list } |->
        Cardinality({ i \in DOMAIN list : list[i].company_domain = d }) ]

\* Python list[a:b] for 0 <= a <= b.
Slice(list, a, b) == SubSeq(list, a + 1, Min(b, Len(list)))

\* fill line 37: the request's fresh_ratio unless it is None; in tenths.
EffectiveRatio(req) ==
    IF req.fresh_ratio # NoInt THEN req.fresh_ratio ELSE fresh_retouch_ratio

\* fill line 38: request.max_per_company or settings.max_contacts_per_company.
EffectiveCap(req) ==
    IF req.max_per_company # NoInt /\ req.max_per_company # 0
    THEN req.max_per_company
    ELSE max_contacts_per_company

\* fill line 44: int(request.volume * ratio), the ratio in tenths.  The
\* product is a binary floating-point number and int() truncates it: 90 * 0.7,
\* 170 * 0.7 and 180 * 0.7 evaluate to just below 63, 119 and 126
\* (62.99999999999999, ...), while every other product of a volume up to 200
\* and a ratio in tenths truncates to its exact floor.
FreshTarget(req) ==
    LET exact == (req.volume * EffectiveRatio(req)) \div 10 IN
    IF EffectiveRatio(req) = 7 /\ req.volume \in { 90, 170, 180 }
    THEN exact - 1
    ELSE exact

\* fill lines 68-83: cap, trim to volume, backfill.
SelectContacts(fresh_contacts, retouch_contacts, volume, fresh_target, max_per_co) ==
    LET selected_fresh == apply_company_cap(fresh_contacts, max_per_co, <<>>)
        company_counts == count_by_company(selected_fresh)
        selected_retouch == apply_company_cap(retouch_contacts, max_per_co, company_counts)
        first == Slice(selected_fresh, 0, fresh_target)
        second == first \o Slice(selected_retouch, 0, volume - Len(first))
    IN  IF Len(second) < volume
        THEN second \o Slice(selected_fresh, fresh_target,
                             fresh_target + (volume - Len(second)))
        ELSE second

\* Warnings with a shortfall entry also when the volume was met.
FillWarnings_shortfall_when_met(fresh_contacts, all_selected, volume, fresh_target) ==
    (IF Len(fresh_contacts) < fresh_target THEN { "insufficient_fresh" } ELSE {})
        \cup (IF Len(all_selected) <= volume THEN { "volume_shortfall" } ELSE {})

\* fill lines 63-66 and 85-88: the warnings.
FillWarnings(fresh_contacts, all_selected, volume, fresh_target) ==
    (IF Len(fresh_contacts) < fresh_target THEN { "insufficient_fresh" } ELSE {})
        \cup (IF Len(all_selected) < volume THEN { "volume_shortfall" } ELSE {})

(***************************************************************************)
(* Workers.  An idle worker holds no frame; res keeps what its last        *)
(* operation returned or raised until it issues the next one.              *)
(***************************************************************************)
Idle == [ op |-> "none" ]
NoResult == [ kind |-> "none" ]
NoFrame == [ none |-> TRUE ]

AllIdle == \A w \in Workers : pc[w] = "idle"

\* StateMachine.transition's frame: its arguments and locals.
TransitionFrame(key, new_status, triggered_by, campaign_id) ==
    [ key |-> key,
      new_status |-> new_status,
      triggered_by |-> triggered_by,
      campaign_id |-> campaign_id,
      current |-> "unread",
      domain |-> "unread",
      company |-> NoCompany,
      cascade |-> <<>> ]

(***************************************************************************)
(* state_machine.py: StateMachine.transition, one step per store call.     *)
(***************************************************************************)
\* transition lines 112-125: the **updates of the contact row.
ContactUpdates(new_status, at) ==
    [ disposition_status |-> new_status ]
        @@ (IF get_cooldown(new_status) # NoTime
            THEN [ email_cooldown_until |-> at + get_cooldown(new_status) ]
            ELSE NoFields)
        @@ [ f \in { ch \o "_suppressed" : ch \in get_suppression(new_status) } |-> TRUE ]

\* _update_company_state lines 192-223: the **updates of the company row,
\* from the company row read at line 196 or 205.
CompanyUpdates(old_status, new_status, company, at) ==
    LET counters ==
            IF new_status = IN_SEQUENCE
            THEN IF company # NoCompany
                 THEN [ contacts_in_sequence |-> company.contacts_in_sequence + 1,
                        contacts_touched |-> company.contacts_touched + 1,
                        company_status |-> "active",
                        last_contact_date |-> at ]
                 ELSE NoFields
            ELSE IF old_status = IN_SEQUENCE
            THEN IF company # NoCompany
                 THEN LET new_count == Max(0, company.contacts_in_sequence - 1)
                      IN  (IF new_count = 0 /\ company.contacts_touched > 0
                           THEN [ company_status |-> "cooling" ]
                           ELSE NoFields)
                              @@ [ contacts_in_sequence |-> new_count ]
                 ELSE NoFields
            ELSE NoFields
        won ==
            IF new_status = WON_CUSTOMER
            THEN [ company_status |-> "customer", is_customer |-> TRUE ]
            ELSE NoFields
        hard_no ==
            IF new_status = REPLIED_HARD_NO
            THEN [ company_status |-> "suppressed", company_suppressed |-> TRUE ]
            ELSE NoFields
    IN  hard_no @@ won @@ counters

\* _update_company_state reads the company row only on these two branches.
ReadsCompany(old_status, new_status) ==
    new_status = IN_SEQUENCE \/ old_status = IN_SEQUENCE

\* CampaignFillEngine.fill after its first store call, the query for fresh
\* contacts (lines 37-51), on the tables as they are at the call.
FillFrame(req, ctbl, cotbl, at) ==
    [ op |-> "fill",
      req |-> req,
      fresh_contacts |->
          query_eligible_contacts(ctbl, cotbl, req.client_id, req.channel,
              req.title_keywords, FreshTarget(req) * 2, { FRESH }, at),
      selected |-> <<>>,
      warnings |-> {},
      idx |-> 0,
      t |-> NoFrame,
      own |-> NoFrame ]

\* fill lines 95-113: the next selected contact, or the CampaignFillResult.
FillResult(l) ==
    [ kind |-> "ok",
      client_id |-> l.req.client_id,
      total_requested |-> l.req.volume,
      total_assigned |-> Len(l.selected),
      fresh_count |->
        Cardinality({ i \in DOMAIN l.selected : l.selected[i].disposition_status = FRESH }),
      retouch_count |->
        Cardinality({ i \in DOMAIN l.selected : l.selected[i].disposition_status # FRESH }),
      companies_touched |->
        Cardinality({ l.selected[i].company_domain : i \in DOMAIN l.selected }),
      contacts |-> l.selected,
      warnings |-> l.warnings ]

(***************************************************************************)
(* waterfall/engine.py: WaterfallEngine.fill_campaign.  wf is the frame of *)
(* the call: the request, the result built so far, the deficit, the        *)
(* credits, the leads collected and the index of the next provider.        *)
(***************************************************************************)
\* self.providers: the registered providers, sorted by priority (line 87).
Providers == << "ai_ark", "clay", "jina" >>

\* _get_active_providers.  An override that is not empty filters
\* self.providers, which keeps the priority order.  Otherwise the providers
\* named in the configured order are sorted by their index in it, the index
\* of a name being that of its last occurrence.
get_active_providers(order, override) ==
    LET names(list) == { list[i] : i \in DOMAIN list } IN
    IF override # <<>>
    THEN SelectSeq(Providers, LAMBDA p : p \in names(override))
    ELSE LET order_map(p) ==
                 CHOOSE i \in DOMAIN order :
                    order[i] = p /\ \A j \in DOMAIN order : order[j] = p => j <= i
             listed == { p \in names(Providers) : p \in names(order) }
         IN  [ i \in 1..Cardinality(listed) |->
                 CHOOSE p \in listed :
                    Cardinality({ q \in listed : order_map(q) < order_map(p) }) = i - 1 ]

\* The active providers of a fill_campaign call (line 142).
ActiveProviders(req) ==
    get_active_providers(req.waterfall_provider_order, req.providers_override)

\* fill_campaign lines 247-254: the final-shortfall warning and the return.
WaterfallReturn(wf) ==
    [ pc |-> "idle",
      loc |-> Idle,
      res |-> [ wf.result EXCEPT
                  !.warnings = IF wf.result.total_assigned < wf.req.volume
                               THEN @ \cup { "final_shortfall" }
                               ELSE @ ] ]

\* C22 mutant: the budget check with > in place of >=.
cascade_head_strictly_over(wf) ==
    LET exit(f) == IF f.leads = <<>>
                   THEN WaterfallReturn(f)
                   ELSE [ pc |-> "w_write_back",
                          loc |-> [ op |-> "waterfall", wf |-> f ],
                          res |-> NoResult ]
    IN  IF wf.next > Len(ActiveProviders(wf.req)) \/ wf.deficit <= 0
        THEN exit(wf)
        ELSE IF wf.total_credits > wf.req.max_external_credits
        THEN exit([ wf EXCEPT !.result.warnings = @ \cup { "credit_limit" } ])
        ELSE [ pc |-> "w_search",
               loc |-> [ op |-> "waterfall", wf |-> wf ],
               res |-> NoResult ]

\* fill_campaign lines 157-171 and 202-204: the head of the provider loop.
\* The loop ends when the providers are used up or the deficit is met, and
\* with a warning when the credits are spent; otherwise the next provider's
\* search_leads is awaited.  After the loop comes the write-back when there
\* are leads, the return when there are none.
cascade_head(wf) ==
    LET exit(f) == IF f.leads = <<>>
                   THEN WaterfallReturn(f)
                   ELSE [ pc |-> "w_write_back",
                          loc |-> [ op |-> "waterfall", wf |-> f ],
                          res |-> NoResult ]
    IN  IF wf.next > Len(ActiveProviders(wf.req)) \/ wf.deficit <= 0
        THEN exit(wf)
        ELSE IF wf.total_credits >= wf.req.max_external_credits
        THEN exit([ wf EXCEPT !.result.warnings = @ \cup { "credit_limit" } ])
        ELSE [ pc |-> "w_search",
               loc |-> [ op |-> "waterfall", wf |-> wf ],
               res |-> NoResult ]

\* C21 mutant: search_leads awaited outside the try, its exception ending
\* the call.
provider_round_uncaught(wf, outcome) ==
    LET name == ActiveProviders(wf.req)[wf.next] IN
    IF outcome.raised
    THEN [ pc |-> "idle", loc |-> Idle, res |-> [ kind |-> "Exception" ] ]
    ELSE cascade_head(
             [ wf EXCEPT
                 !.next = @ + 1,
                 !.result.warnings = @ \cup outcome.errors,
                 !.result.per_provider_counts = (name :> Len(outcome.leads)) @@ @,
                 !.result.credits_consumed = (name :> outcome.credits_consumed) @@ @,
                 !.result.calls = Append(@, [ provider |-> name, raised |-> FALSE,
                                              limit |-> wf.deficit,
                                              found |-> Len(outcome.leads),
                                              credits |-> outcome.credits_consumed ]),
                 !.total_credits = @ + outcome.credits_consumed,
                 !.leads = @ \o outcome.leads,
                 !.deficit = @ - Len(outcome.leads) ])

\* fill_campaign lines 173-200: what follows the provider's search_leads.
\* An exception becomes a warning and the loop continues; a ProviderResult
\* adds its errors, counts, credits and leads.  calls records the searches
\* in the order they were awaited.
provider_round(wf, outcome) ==
    LET name == ActiveProviders(wf.req)[wf.next] IN
    IF outcome.raised
    THEN cascade_head(
             [ wf EXCEPT
                 !.next = @ + 1,
                 !.result.warnings = @ \cup { name \o " error" },
                 !.result.calls = Append(@, [ provider |-> name, raised |-> TRUE,
                                              limit |-> wf.deficit,
                                              found |-> 0, credits |-> 0 ]) ])
    ELSE cascade_head(
             [ wf EXCEPT
                 !.next = @ + 1,
                 !.result.warnings = @ \cup outcome.errors,
                 !.result.per_provider_counts = (name :> Len(outcome.leads)) @@ @,
                 !.result.credits_consumed = (name :> outcome.credits_consumed) @@ @,
                 !.result.calls = Append(@, [ provider |-> name, raised |-> FALSE,
                                              limit |-> wf.deficit,
                                              found |-> Len(outcome.leads),
                                              credits |-> outcome.credits_consumed ]),
                 !.total_credits = @ + outcome.credits_consumed,
                 !.leads = @ \o outcome.leads,
                 !.deficit = @ - Len(outcome.leads) ])

\* C23 mutant: the refill's contacts added without its total_assigned.
AfterFill_total_not_added(l) ==
    LET fr == FillResult(l)
        wf == l.wf
    IN  IF wf.stage = "internal"
        THEN LET result ==
                     [ kind |-> "ok",
                       op |-> "waterfall",
                       request |-> wf.req,
                       client_id |-> wf.req.client_id,
                       total_requested |-> wf.req.volume,
                       total_assigned |-> fr.total_assigned,
                       fresh_count |-> fr.fresh_count,
                       retouch_count |-> fr.retouch_count,
                       companies_touched |-> fr.companies_touched,
                       contacts |-> fr.contacts,
                       warnings |-> fr.warnings,
                       internal_filled |-> fr.total_assigned,
                       external_filled |-> 0,
                       per_provider_counts |-> ("internal" :> fr.total_assigned),
                       credits_consumed |-> <<>>,
                       write_back_count |-> 0,
                       calls |-> <<>> ]
                 deficit == wf.req.volume - fr.total_assigned
             IN  IF deficit <= 0 \/ ~wf.req.enable_external
                 THEN [ pc |-> "idle", loc |-> Idle, res |-> result ]
                 ELSE IF ~wf.req.waterfall_enabled
                 THEN [ pc |-> "idle", loc |-> Idle,
                        res |-> [ result EXCEPT
                                    !.warnings = @ \cup { "waterfall_disabled" } ] ]
                 ELSE cascade_head([ req |-> wf.req, stage |-> "cascade",
                                     result |-> result, deficit |-> deficit,
                                     total_credits |-> 0, leads |-> <<>>, next |-> 1 ])
        ELSE WaterfallReturn(
                 [ wf EXCEPT
                     !.result.external_filled = fr.total_assigned,
                     !.result.fresh_count = @ + fr.fresh_count,
                     !.result.companies_touched = @ + fr.companies_touched,
                     !.result.contacts = @ \o fr.contacts,
                     !.result.warnings = @ \cup fr.warnings ])

\* fill_campaign after a fill of its fill_engine has returned.  After the
\* internal fill (lines 113-155): the result so far, the early returns, and
\* the head of the provider loop.  After the refill (lines 231-254): the
\* refill's numbers and contacts added to the result, and the return.
AfterFill(l) ==
    LET fr == FillResult(l)
        wf == l.wf
    IN  IF wf.stage = "internal"
        THEN LET result ==
                     [ kind |-> "ok",
                       op |-> "waterfall",
                       request |-> wf.req,
                       client_id |-> wf.req.client_id,
                       total_requested |-> wf.req.volume,
                       total_assigned |-> fr.total_assigned,
                       fresh_count |-> fr.fresh_count,
                       retouch_count |-> fr.retouch_count,
                       companies_touched |-> fr.companies_touched,
                       contacts |-> fr.contacts,
                       warnings |-> fr.warnings,
                       internal_filled |-> fr.total_assigned,
                       external_filled |-> 0,
                       per_provider_counts |-> ("internal" :> fr.total_assigned),
                       credits_consumed |-> <<>>,
                       write_back_count |-> 0,
                       calls |-> <<>> ]
                 deficit == wf.req.volume - fr.total_assigned
             IN  IF deficit <= 0 \/ ~wf.req.enable_external
                 THEN [ pc |-> "idle", loc |-> Idle, res |-> result ]
                 ELSE IF ~wf.req.waterfall_enabled
                 THEN [ pc |-> "idle", loc |-> Idle,
                        res |-> [ result EXCEPT
                                    !.warnings = @ \cup { "waterfall_disabled" } ] ]
                 ELSE cascade_head([ req |-> wf.req, stage |-> "cascade",
                                     result |-> result, deficit |-> deficit,
                                     total_credits |-> 0, leads |-> <<>>, next |-> 1 ])
        ELSE WaterfallReturn(
                 [ wf EXCEPT
                     !.result.external_filled = fr.total_assigned,
                     !.result.total_assigned = @ + fr.total_assigned,
                     !.result.fresh_count = @ + fr.fresh_count,
                     !.result.companies_touched = @ + fr.companies_touched,
                     !.result.contacts = @ \o fr.contacts,
                     !.result.warnings = @ \cup fr.warnings ])

\* The end of a fill: its result goes to the caller, or to fill_campaign
\* when the fill is one of a waterfall.
FillNext(l) ==
    IF l.idx >= Len(l.selected)
    THEN IF "wf" \in DOMAIN l
         THEN AfterFill(l)
         ELSE [ pc |-> "idle", loc |-> Idle, res |-> FillResult(l) ]
    ELSE [ pc |-> "t_get",
           loc |-> [ l EXCEPT !.idx = @ + 1,
                              !.t = TransitionFrame(l.selected[l.idx + 1].key, IN_SEQUENCE,
                                                    "campaign_fill", l.req.campaign_id) ],
           res |-> NoResult ]

\* What a maintenance sweep returns: its count.  The record also keeps which
\* sweep it was, with which argument, at what time, and whether it directly
\* followed a completed run of the same sweep (see Again).
SweepResult(l) ==
    [ kind |-> "ok", count |-> l.count, op |-> l.op, months |-> l.months,
      at |-> l.at, again |-> l.again ]

\* process_expired_cooldowns / process_stale_data: the next contact of the
\* list, or the count.
SweepNext(l) ==
    IF l.idx >= Len(l.list)
    THEN [ pc |-> "idle", loc |-> Idle, res |-> SweepResult(l) ]
    ELSE [ pc |-> "t_get",
           loc |-> [ l EXCEPT !.idx = @ + 1,
                              !.t = TransitionFrame(l.list[l.idx + 1], l.target,
                                                    "system", "none") ],
           res |-> NoResult ]

\* Where the caller of transition resumes: [pc, loc, res] of the worker.
\* A direct call ends the operation; _assign_contact goes on at line 133 and
\* lets an exception end the fill; a sweep counts and takes the next contact,
\* swallowing a TransitionError.
AfterTransition(l, outcome) ==
    CASE l.op = "transition" ->
            [ pc |-> "idle", loc |-> Idle, res |-> [ kind |-> outcome ] ]
      [] l.op = "fill" ->
            IF outcome = "ok"
            THEN [ pc |-> "a_update", loc |-> [ l EXCEPT !.t = NoFrame ], res |-> NoResult ]
            ELSE [ pc |-> "idle", loc |-> Idle, res |-> [ kind |-> outcome ] ]
      [] OTHER ->
            IF outcome = "ValueError"
            THEN [ pc |-> "idle", loc |-> Idle, res |-> [ kind |-> outcome ] ]
            ELSE SweepNext([ l EXCEPT !.t = NoFrame,
                                      !.count = IF outcome = "ok" THEN @ + 1 ELSE @ ])

Resume(w, r) ==
    /\ pc' = [ pc EXCEPT ![w] = r.pc ]
    /\ loc' = [ loc EXCEPT ![w] = r.loc ]
    /\ res' = [ res EXCEPT ![w] = r.res ]

\* After the company update: the hard-no cascade, or the end of transition.
AfterCompany(w, l) ==
    IF l.t.new_status = REPLIED_HARD_NO
    THEN /\ pc' = [ pc EXCEPT ![w] = "t_suppress_get" ]
         /\ loc' = [ loc EXCEPT ![w] = l ]
         /\ res' = res
    ELSE Resume(w, AfterTransition(l, "ok"))

\* Lines 103-108: get_contact, then _validate_transition.
T_get(w) ==
    /\ pc[w] = "t_get"
    /\ LET t == loc[w].t IN
        IF t.key \notin DOMAIN contacts
        THEN Resume(w, AfterTransition(loc[w], "ValueError"))
        ELSE IF ~ validate_transition(contacts[t.key].disposition_status, t.new_status)
        THEN Resume(w, AfterTransition(loc[w], "TransitionError"))
        ELSE /\ pc' = [ pc EXCEPT ![w] = "t_update" ]
             /\ loc' = [ loc EXCEPT ![w].t.current = contacts[t.key].disposition_status,
                                    ![w].t.domain = contacts[t.key].company_domain ]
             /\ res' = res
    /\ UNCHANGED <<db, now, active>>

\* Line 128: update_contact_fields(email, client_id, **updates).
T_update(w) ==
    /\ pc[w] = "t_update"
    /\ contacts' = update_contact_fields(contacts, loc[w].t.key,
                                         ContactUpdates(loc[w].t.new_status, now))
    /\ pc' = [ pc EXCEPT ![w] = "t_history" ]
    /\ UNCHANGED <<companies, history, assignments, ownership_log, tam_snapshots, now, active, loc, res>>

\* Lines 131-139: insert_history; then _update_company_state picks its branch.
T_history(w) ==
    /\ pc[w] = "t_history"
    /\ LET t == loc[w].t IN
        /\ history' = insert_history(history, t.key, t.current, t.new_status,
                                     t.triggered_by, t.campaign_id, now)
        /\ IF ReadsCompany(t.current, t.new_status)
           THEN /\ pc' = [ pc EXCEPT ![w] = "t_company_get" ]
                /\ UNCHANGED <<loc, res>>
           ELSE IF DOMAIN CompanyUpdates(t.current, t.new_status, NoCompany, now) # {}
           THEN /\ pc' = [ pc EXCEPT ![w] = "t_company_update" ]
                /\ UNCHANGED <<loc, res>>
           ELSE AfterCompany(w, loc[w])
    /\ UNCHANGED <<contacts, companies, assignments, ownership_log, tam_snapshots, now, active>>

\* Lines 196 / 205: get_company(domain).
T_company_get(w) ==
    /\ pc[w] = "t_company_get"
    /\ LET l == [ loc[w] EXCEPT !.t.company = get_company(companies, loc[w].t.domain) ] IN
        IF DOMAIN CompanyUpdates(l.t.current, l.t.new_status, l.t.company, now) # {}
        THEN /\ pc' = [ pc EXCEPT ![w] = "t_company_update" ]
             /\ loc' = [ loc EXCEPT ![w] = l ]
             /\ res' = res
        ELSE AfterCompany(w, l)
    /\ UNCHANGED <<db, now, active>>

\* Line 226: update_company_fields(domain, **updates).
T_company_update(w) ==
    /\ pc[w] = "t_company_update"
    /\ LET t == loc[w].t IN
        companies' = update_company_fields(companies, t.domain,
                        CompanyUpdates(t.current, t.new_status, t.company, now))
    /\ AfterCompany(w, loc[w])
    /\ UNCHANGED <<contacts, history, assignments, ownership_log, tam_snapshots, now, active>>

\* _suppress_company line 230: get_contacts_by_domain; the loop then updates
\* the rows that were unsuppressed when read.
T_suppress_get(w) ==
    /\ pc[w] = "t_suppress_get"
    /\ LET todo == RowsOf({ k \in get_contacts_by_domain(contacts, loc[w].t.domain) :
                              ~ contacts[k].email_suppressed }) IN
        IF todo = <<>>
        THEN Resume(w, AfterTransition(loc[w], "ok"))
        ELSE /\ pc' = [ pc EXCEPT ![w] = "t_suppress_update" ]
             /\ loc' = [ loc EXCEPT ![w].t.cascade = todo ]
             /\ res' = res
    /\ UNCHANGED <<db, now, active>>

\* _suppress_company lines 233-237: update_contact_fields(email_suppressed=True).
T_suppress_update(w) ==
    /\ pc[w] = "t_suppress_update"
    /\ LET todo == loc[w].t.cascade IN
        /\ contacts' = update_contact_fields(contacts, Head(todo),
                                             [ email_suppressed |-> TRUE ])
        /\ IF Tail(todo) = <<>>
           THEN Resume(w, AfterTransition(loc[w], "ok"))
           ELSE /\ loc' = [ loc EXCEPT ![w].t.cascade = Tail(todo) ]
                /\ UNCHANGED <<pc, res>>
    /\ UNCHANGED <<companies, history, assignments, ownership_log, tam_snapshots, now, active>>

\* A caller of StateMachine.transition(email, client_id, new_status,
\* triggered_by="ui"), up to its first store call: the contact is one of keys,
\* the status one of statuses, and the call is made while the history table
\* holds fewer than max_rows rows.
StartTransition(w, keys, statuses, max_rows) ==
    /\ pc[w] = "idle" /\ w \in active
    /\ Len(history) < max_rows
    /\ \E key \in keys, new_status \in statuses :
        /\ pc' = [ pc EXCEPT ![w] = "t_get" ]
        /\ loc' = [ loc EXCEPT ![w] =
                      [ op |-> "transition",
                        t |-> TransitionFrame(key, new_status, "ui", "none") ] ]
        /\ res' = [ res EXCEPT ![w] = NoResult ]
    /\ UNCHANGED <<db, now, active>>

\* web/app.py api_transition: sm.transition(email, client_id, status, triggered_by="ui").
ApiTransition(w) == StartTransition(w, ContactKeys, DispositionStatus, MaxHist)

\* importer.py import_csv_string with one valid row, through
\* Database.bulk_create_contacts: _ensure_company, INSERT OR IGNORE, and
\* contacts_total + 1 when the row was inserted.
ImportContact(w) ==
    /\ pc[w] = "idle" /\ w \in active
    /\ now <= MaxImportTick * TickDays
    /\ \E key \in ContactKeys :
        LET domain == DomainOf(key[1])
            ensured == IF domain \in DOMAIN companies
                       THEN companies
                       ELSE (domain :> NewCompanyRow) @@ companies
        IN  IF key \in DOMAIN contacts
            THEN /\ companies' = ensured
                 /\ contacts' = contacts
                 /\ res' = [ res EXCEPT ![w] = [ kind |-> "ok", imported |-> 0 ] ]
            ELSE /\ contacts' = (key :> NewContactRow(key[1], TitleOf(key[1]), now)) @@ contacts
                 /\ companies' = [ ensured EXCEPT ![domain].contacts_total = @ + 1 ]
                 /\ res' = [ res EXCEPT ![w] = [ kind |-> "ok", imported |-> 1 ] ]
    /\ UNCHANGED <<history, assignments, ownership_log, tam_snapshots, now, active, pc, loc>>

(***************************************************************************)
(* campaign_fill.py: CampaignFillEngine.fill and _assign_contact.          *)
(***************************************************************************)
FillChannels == { "email", "linkedin" }
FillRatios == { NoInt, 10 }
FillCaps == { NoInt, 1 }

FillRequests ==
    [ campaign_id : { "camp_1" },
      client_id : Clients,
      channel : FillChannels,
      volume : 1..MaxVolume,
      title_keywords : { <<>> },
      fresh_ratio : FillRatios,
      max_per_company : FillCaps ]

\* web/app.py api_campaign_fill: engine.fill(request), up to its first store
\* call, the query for fresh contacts (lines 37-51).
StartFillWithin(w, requests, max_rows) ==
    /\ pc[w] = "idle" /\ w \in active
    /\ \E req \in requests :
        /\ Len(history) + req.volume <= max_rows
        /\ pc' = [ pc EXCEPT ![w] = "f_query_retouch" ]
        /\ loc' = [ loc EXCEPT ![w] = FillFrame(req, contacts, companies, now) ]
        /\ res' = [ res EXCEPT ![w] = NoResult ]
    /\ UNCHANGED <<db, now, active>>

StartFill(w, requests) == StartFillWithin(w, requests, MaxHist)

ApiFill(w) == StartFill(w, FillRequests)

\* fill lines 53-96: the query for retouch contacts, the selection, and the
\* call of _assign_contact for the first selected contact.
F_query_retouch(w) ==
    /\ pc[w] = "f_query_retouch"
    /\ LET req == loc[w].req
           fresh_target == FreshTarget(req)
           retouch_contacts ==
               query_eligible_contacts(contacts, companies, req.client_id, req.channel,
                   req.title_keywords, (req.volume - fresh_target) * 2,
                   { RETOUCH_ELIGIBLE }, now)
           all_selected == SelectContacts(loc[w].fresh_contacts, retouch_contacts,
                                          req.volume, fresh_target, EffectiveCap(req))
           l == [ loc[w] EXCEPT !.selected = all_selected,
                                !.fresh_contacts = <<>>,
                                !.warnings = FillWarnings(loc[w].fresh_contacts, all_selected,
                                                          req.volume, fresh_target) ]
       IN  Resume(w, FillNext(l))
    /\ UNCHANGED <<db, now, active>>

\* _assign_contact lines 131-136: update_contact_fields(<channel>_last_contacted,
\* sequence_count = contact.sequence_count + 1), contact being the selected row.
A_update(w) ==
    /\ pc[w] = "a_update"
    /\ LET c == loc[w].selected[loc[w].idx] IN
        contacts' = update_contact_fields(contacts, c.key,
                        [ sequence_count |-> c.sequence_count + 1 ]
                            @@ [ f \in { loc[w].req.channel \o "_last_contacted" } |-> now ])
    /\ pc' = [ pc EXCEPT ![w] = "a_insert" ]
    /\ UNCHANGED <<companies, history, assignments, ownership_log, tam_snapshots, now, active, loc, res>>

\* _assign_contact lines 139-145: insert_assignment.
A_insert(w) ==
    /\ pc[w] = "a_insert"
    /\ LET c == loc[w].selected[loc[w].idx] IN
        assignments' = insert_assignment(assignments, c.key, loc[w].req.campaign_id,
                                         loc[w].req.client_id, loc[w].req.channel)
    /\ pc' = [ pc EXCEPT ![w] = "a_company_get" ]
    /\ UNCHANGED <<contacts, companies, history, ownership_log, tam_snapshots, now, active, loc, res>>

\* The ownership fields a claim or a transfer writes.
OwnershipFields(client_id, at) ==
    [ client_owner_id |-> client_id,
      client_owned_at |-> at,
      ownership_expires_at |-> at + ownership_duration_months * 30 ]

\* The ownership fields a release or the expiry sweep writes.
ClearedOwnership ==
    [ client_owner_id |-> NoOwner,
      client_owned_at |-> NoTime,
      ownership_expires_at |-> NoTime ]

\* A pending ownership write: update_company_fields, then insert_ownership_change.
OwnFrame(domain, fields, previous_owner_id, new_owner_id, reason) ==
    [ domain |-> domain,
      fields |-> fields,
      previous_owner_id |-> previous_owner_id,
      new_owner_id |-> new_owner_id,
      reason |-> reason ]

\* _assign_contact lines 148-149: get_company, and the test for an unowned company.
A_company_get(w) ==
    /\ pc[w] = "a_company_get"
    /\ LET c == loc[w].selected[loc[w].idx]
           company == get_company(companies, c.company_domain)
       IN  IF company # NoCompany /\ company.client_owner_id = NoOwner
           THEN /\ pc' = [ pc EXCEPT ![w] = "o_update" ]
                /\ loc' = [ loc EXCEPT ![w].own =
                              OwnFrame(c.company_domain,
                                       OwnershipFields(loc[w].req.client_id, now),
                                       NoOwner, loc[w].req.client_id, "first_claim") ]
                /\ res' = res
           ELSE Resume(w, FillNext(loc[w]))
    /\ UNCHANGED <<db, now, active>>

(***************************************************************************)
(* deconfliction.py.                                                       *)
(***************************************************************************)
\* process_expired_ownerships: the next expired company, or the count.
OwnSweepNext(l) ==
    IF l.idx >= Len(l.list)
    THEN [ pc |-> "idle", loc |-> Idle, res |-> SweepResult(l) ]
    ELSE LET company == l.list[l.idx + 1] IN
         [ pc |-> "o_update",
           loc |-> [ l EXCEPT !.idx = @ + 1,
                              !.own = OwnFrame(company.domain, ClearedOwnership,
                                               company.client_owner_id, NoOwner, "expired") ],
           res |-> NoResult ]

\* Where the caller of an ownership write resumes once the change is logged.
AfterOwnership(l) ==
    CASE l.op = "fill" -> FillNext([ l EXCEPT !.own = NoFrame ])
      [] l.op = "expired_ownerships" ->
            OwnSweepNext([ l EXCEPT !.own = NoFrame, !.count = @ + 1 ])
      [] OTHER -> [ pc |-> "idle", loc |-> Idle, res |-> [ kind |-> "ok", value |-> TRUE ] ]

\* update_company_fields(domain, client_owner_id=..., client_owned_at=...,
\* ownership_expires_at=...).
O_update(w) ==
    /\ pc[w] = "o_update"
    /\ companies' = update_company_fields(companies, loc[w].own.domain, loc[w].own.fields)
    /\ pc' = [ pc EXCEPT ![w] = "o_log" ]
    /\ UNCHANGED <<contacts, history, assignments, ownership_log, tam_snapshots, now, active, loc, res>>

\* insert_ownership_change(company_domain, previous_owner_id, new_owner_id, reason).
O_log(w) ==
    /\ pc[w] = "o_log"
    /\ LET o == loc[w].own IN
        ownership_log' = insert_ownership_change(ownership_log, o.domain,
                            o.previous_owner_id, o.new_owner_id, o.reason, now)
    /\ Resume(w, AfterOwnership(loc[w]))
    /\ UNCHANGED <<contacts, companies, history, assignments, tam_snapshots, now, active>>

\* Deconfliction.check_ownership: TRUE when the client may target the company.
check_ownership(cotbl, domain, client_id, at) ==
    LET company == get_company(cotbl, domain) IN
    IF company = NoCompany THEN TRUE
    ELSE IF company.client_owner_id = NoOwner THEN TRUE
    ELSE IF company.client_owner_id = client_id THEN TRUE
    ELSE /\ company.ownership_expires_at # NoTime
         /\ company.ownership_expires_at <= at
         /\ company.contacts_in_sequence = 0

\* The tests claim_ownership makes on the company it read (lines 44-47).
claim_ownership_accepts(company, client_id) ==
    /\ company # NoCompany
    /\ company.client_owner_id = NoOwner \/ company.client_owner_id = client_id

Refused(w) ==
    /\ pc' = pc
    /\ loc' = loc
    /\ res' = [ res EXCEPT ![w] = [ kind |-> "ok", value |-> FALSE ] ]

Pending(w, op, own) ==
    /\ pc' = [ pc EXCEPT ![w] = "o_update" ]
    /\ loc' = [ loc EXCEPT ![w] = [ op |-> op, own |-> own ] ]
    /\ res' = [ res EXCEPT ![w] = NoResult ]

\* Deconfliction.claim_ownership, up to its get_company (lines 43-47).
ClaimOwnership(w) ==
    /\ pc[w] = "idle" /\ w \in active
    /\ Len(ownership_log) < MaxOwnLog
    /\ \E domain \in Domains, client_id \in Clients :
        LET company == get_company(companies, domain) IN
        IF ~claim_ownership_accepts(company, client_id)
        THEN Refused(w)
        ELSE Pending(w, "claim", OwnFrame(domain, OwnershipFields(client_id, now),
                                          company.client_owner_id, client_id, "first_claim"))
    /\ UNCHANGED <<db, now, active>>

\* Deconfliction.release_ownership, up to its get_company (lines 68-70).
ReleaseOwnership(w) ==
    /\ pc[w] = "idle" /\ w \in active
    /\ Len(ownership_log) < MaxOwnLog
    /\ \E domain \in Domains :
        LET company == get_company(companies, domain) IN
        IF company = NoCompany \/ company.client_owner_id = NoOwner
        THEN Refused(w)
        ELSE Pending(w, "release", OwnFrame(domain, ClearedOwnership,
                                            company.client_owner_id, NoOwner, "manual_release"))
    /\ UNCHANGED <<db, now, active>>

\* Deconfliction.transfer_ownership, up to its get_company (lines 89-91).
TransferOwnership(w) ==
    /\ pc[w] = "idle" /\ w \in active
    /\ Len(ownership_log) < MaxOwnLog
    /\ \E domain \in Domains, new_client_id \in Clients :
        LET company == get_company(companies, domain) IN
        IF company = NoCompany
        THEN Refused(w)
        ELSE Pending(w, "transfer", OwnFrame(domain, OwnershipFields(new_client_id, now),
                                             company.client_owner_id, new_client_id,
                                             "admin_transfer"))
    /\ UNCHANGED <<db, now, active>>

\* get_expired_ownerships without the tests for NULL: an unowned company,
\* whose ownership_expires_at is NULL, is selected as well.
get_expired_ownerships_null_too(cotbl, at) ==
    LET doms == { d \in DOMAIN cotbl :
                    /\ cotbl[d].ownership_expires_at <= at
                    /\ cotbl[d].contacts_in_sequence = 0 }
        order == SelectSeq(<< "acme.com", "zeta.io" >>, LAMBDA d : d \in doms)
    IN  [ i \in DOMAIN order |->
            [ domain |-> order[i], client_owner_id |-> cotbl[order[i]].client_owner_id ] ]

\* The worker's last operation was this sweep with this argument, it
\* completed, and the clock has not advanced since.
Again(w, op, months) ==
    /\ "op" \in DOMAIN res[w]
    /\ res[w].op = op
    /\ res[w].months = months
    /\ res[w].at = now

\* Database.get_expired_ownerships: the companies rows selected, each with its domain.
get_expired_ownerships(cotbl, at) ==
    LET doms == { d \in DOMAIN cotbl :
                    /\ cotbl[d].client_owner_id # NoOwner
                    /\ cotbl[d].ownership_expires_at # NoTime
                    /\ cotbl[d].ownership_expires_at <= at
                    /\ cotbl[d].contacts_in_sequence = 0 }
        order == SelectSeq(<< "acme.com", "zeta.io" >>, LAMBDA d : d \in doms)
    IN  [ i \in DOMAIN order |->
            [ domain |-> order[i], client_owner_id |-> cotbl[order[i]].client_owner_id ] ]

\* Deconfliction.process_expired_ownerships, up to its get_expired_ownerships.
ProcessExpiredOwnerships(w) ==
    /\ pc[w] = "idle" /\ w \in active
    /\ LET list == get_expired_ownerships(companies, now) IN
        /\ Len(ownership_log) + Len(list) <= MaxOwnLog + 1
        /\ Resume(w, OwnSweepNext([ op |-> "expired_ownerships", list |-> list,
                                    idx |-> 0, count |-> 0, own |-> NoFrame,
                                    months |-> NoInt, at |-> now,
                                    again |-> Again(w, "expired_ownerships", NoInt) ]))
    /\ UNCHANGED <<db, now, active>>

(***************************************************************************)
(* state_machine.py: the maintenance sweeps.                               *)
(***************************************************************************)
\* get_expired_cooldowns without lost_closed in its status list.
get_expired_cooldowns_without_lost_closed(ctbl, at) ==
    RowsOf({ k \in DOMAIN ctbl :
               /\ ctbl[k].disposition_status \in
                    { COMPLETED_NO_RESPONSE, REPLIED_NEUTRAL, REPLIED_NEGATIVE }
               /\ ctbl[k].email_cooldown_until # NoTime
               /\ ctbl[k].email_cooldown_until <= at })

\* Database.get_expired_cooldowns.
get_expired_cooldowns(ctbl, at) ==
    RowsOf({ k \in DOMAIN ctbl :
               /\ ctbl[k].disposition_status \in
                    { COMPLETED_NO_RESPONSE, REPLIED_NEUTRAL, REPLIED_NEGATIVE, LOST_CLOSED }
               /\ ctbl[k].email_cooldown_until # NoTime
               /\ ctbl[k].email_cooldown_until <= at })

\* get_stale_contacts without fresh contacts.
get_stale_contacts_not_fresh(ctbl, months, at) ==
    RowsOf({ k \in DOMAIN ctbl :
               /\ ctbl[k].data_enriched_at # NoTime
               /\ ctbl[k].data_enriched_at < at - months * 30
               /\ ctbl[k].disposition_status \notin
                    { REPLIED_HARD_NO, BOUNCED, UNSUBSCRIBED, WON_CUSTOMER, STALE_DATA,
                      FRESH } })

\* Database.get_stale_contacts(months).
get_stale_contacts(ctbl, months, at) ==
    RowsOf({ k \in DOMAIN ctbl :
               /\ ctbl[k].data_enriched_at # NoTime
               /\ ctbl[k].data_enriched_at < at - months * 30
               /\ ctbl[k].disposition_status \notin
                    { REPLIED_HARD_NO, BOUNCED, UNSUBSCRIBED, WON_CUSTOMER, STALE_DATA } })

\* A sweep's frame: the rows selected, the position in them and the count;
\* before is the contacts table as the sweep's query read it.
StartSweep(w, op, months, list, target, max_rows) ==
    /\ Len(history) + Len(list) <= max_rows
    /\ Resume(w, SweepNext([ op |-> op, list |-> list, target |-> target,
                             idx |-> 0, count |-> 0, t |-> NoFrame,
                             months |-> months, at |-> now,
                             again |-> Again(w, op, months),
                             before |-> contacts ]))

\* StateMachine.process_expired_cooldowns, up to its get_expired_cooldowns.
ExpiredCooldownsWithin(w, max_rows) ==
    /\ pc[w] = "idle" /\ w \in active
    /\ StartSweep(w, "expired_cooldowns", NoInt, get_expired_cooldowns(contacts, now),
                  RETOUCH_ELIGIBLE, max_rows)
    /\ UNCHANGED <<db, now, active>>

ProcessExpiredCooldowns(w) == ExpiredCooldownsWithin(w, MaxHist)

\* StateMachine.process_stale_data(months), up to its get_stale_contacts:
\* m = months or settings.stale_data_months, so None and 0 mean the default.
StaleDataWithin(w, months, max_rows) ==
    /\ pc[w] = "idle" /\ w \in active
    /\ LET m == IF months = NoInt \/ months = 0 THEN stale_data_months ELSE months IN
        StartSweep(w, "stale_data", months, get_stale_contacts(contacts, m, now),
                   STALE_DATA, max_rows)
    /\ UNCHANGED <<db, now, active>>

\* StateMachine.process_stale_data().
ProcessStaleData(w) == StaleDataWithin(w, NoInt, MaxHist)

\* Time passes between operations.
Tick ==
    /\ AllIdle
    /\ now + TickDays <= MaxTime
    /\ now' = now + TickDays
    /\ UNCHANGED <<db, active, pc, loc, res>>

\* The store calls of StateMachine.transition a worker is suspended before.
TransitionSteps(w) ==
    \/ T_get(w)
    \/ T_update(w)
    \/ T_history(w)
    \/ T_company_get(w)
    \/ T_company_update(w)

\* The store calls of StateMachine._suppress_company.
SuppressSteps(w) ==
    \/ T_suppress_get(w)
    \/ T_suppress_update(w)

\* The store calls of CampaignFillEngine.fill and _assign_contact.
FillSteps(w) ==
    \/ F_query_retouch(w)
    \/ A_update(w)
    \/ A_insert(w)
    \/ A_company_get(w)

\* The two store calls of an ownership write.
OwnershipSteps(w) ==
    \/ O_update(w)
    \/ O_log(w)

\* The store after init_schema: every table empty.
InitDb ==
    /\ contacts = <<>>
    /\ companies = <<>>
    /\ history = <<>>
    /\ assignments = <<>>
    /\ ownership_log = <<>>
    /\ tam_snapshots = <<>>
    /\ now = 0

InitStore ==
    /\ InitDb
    /\ pc = [ w \in Workers |-> "idle" ]
    /\ loc = [ w \in Workers |-> Idle ]
    /\ res = [ w \in Workers |-> NoResult ]

\* One caller at a time: every operation runs to its end before the next.
Init == InitStore /\ active = { "w1" }

Spec ==
    Init /\ [][
        \/ Tick
        \/ \E w \in Workers :
            \/ ImportContact(w)
            \/ ApiTransition(w)
            \/ ApiFill(w)
            \/ ProcessExpiredCooldowns(w)
            \/ ProcessStaleData(w)
            \/ TransitionSteps(w)
            \/ SuppressSteps(w)
            \/ FillSteps(w)
            \/ OwnershipSteps(w)
    ]_vars

(***************************************************************************)
(* Callers that overlap: the web application serves its requests as        *)
(* coroutines on one connection, and every store call is an await at which *)
(* another request may run.  The store starts with the contacts of one     *)
(* import: the same person at acme.com, once for each client.              *)
(***************************************************************************)
ImportedKeys == { << "a@acme.com", "client_1" >>, << "a@acme.com", "client_2" >> }

\* The store after that import, every worker idle.
InitImported ==
    /\ contacts = [ k \in ImportedKeys |-> NewContactRow(k[1], TitleOf(k[1]), 0) ]
    /\ companies = [ d \in { "acme.com" } |->
                       [ NewCompanyRow EXCEPT !.contacts_total = Cardinality(ImportedKeys) ] ]
    /\ history = <<>>
    /\ assignments = <<>>
    /\ ownership_log = <<>>
    /\ tam_snapshots = <<>>
    /\ now = 0
    /\ pc = [ w \in Workers |-> "idle" ]
    /\ loc = [ w \in Workers |-> Idle ]
    /\ res = [ w \in Workers |-> NoResult ]

InitConc == InitImported /\ active = Workers

\* One request for each client: all of the volume fresh, on the email channel.
ConcRequests ==
    { req \in FillRequests :
        /\ req.channel = "email"
        /\ req.volume = 1
        /\ req.fresh_ratio = 10
        /\ req.max_per_company = NoInt }

SpecConc ==
    InitConc /\ [][
        \/ Tick
        \/ \E w \in Workers :
            \/ StartFill(w, ConcRequests)
            \/ ClaimOwnership(w)
            \/ ReleaseOwnership(w)
            \/ TransferOwnership(w)
            \/ ProcessExpiredOwnerships(w)
            \/ TransitionSteps(w)
            \/ FillSteps(w)
            \/ OwnershipSteps(w)
    ]_vars

(***************************************************************************)
(* The selection of CampaignFillEngine.fill on its own: a request and the  *)
(* two lists its queries returned, then lines 63-113 in one step.          *)
(***************************************************************************)
Snapshot(email, domain, status) ==
    [ key |-> << email, "client_1" >>,
      company_domain |-> domain,
      disposition_status |-> status,
      sequence_count |-> IF status = FRESH THEN 0 ELSE 1 ]

\* The fresh rows of client_1 in the order the query returns them.
FreshRows ==
    << Snapshot("f1@acme.com", "acme.com", FRESH),
       Snapshot("f2@acme.com", "acme.com", FRESH),
       Snapshot("f3@acme.com", "acme.com", FRESH),
       Snapshot("f4@acme.com", "acme.com", FRESH),
       Snapshot("f5@zeta.io", "zeta.io", FRESH) >>

\* The retouch-eligible rows of client_1 in the order the query returns them.
RetouchRows ==
    << Snapshot("r1@acme.com", "acme.com", RETOUCH_ELIGIBLE),
       Snapshot("r2@zeta.io", "zeta.io", RETOUCH_ELIGIBLE),
       Snapshot("r3@acme.com", "acme.com", RETOUCH_ELIGIBLE) >>

\* The eligible rows are any run of the rows above; LIMIT keeps the first.
Runs(rows, limit) ==
    { SubSeq(rows, a, Min(b, a + limit - 1)) : a \in 1..(Len(rows) + 1), b \in 0..Len(rows) }

CapRequests ==
    [ campaign_id : { "camp_1" },
      client_id : { "client_1" },
      channel : { "email" },
      volume : 1..MaxCapVolume,
      title_keywords : { <<>> },
      fresh_ratio : { NoInt, 0, 5, 10 },
      max_per_company : { NoInt, 0, 1, 2 } ]

InitCap ==
    /\ InitDb
    /\ active = { "w1" }
    /\ res = [ w \in Workers |-> NoResult ]
    /\ \E req \in CapRequests :
        \E fresh_contacts \in Runs(FreshRows, FreshTarget(req) * 2),
           retouch_contacts \in Runs(RetouchRows, (req.volume - FreshTarget(req)) * 2) :
            /\ pc = [ w \in Workers |-> IF w = "w1" THEN "select" ELSE "idle" ]
            /\ loc = [ w \in Workers |->
                         IF w = "w1"
                         THEN [ op |-> "select", req |-> req,
                                fresh_contacts |-> fresh_contacts,
                                retouch_contacts |-> retouch_contacts ]
                         ELSE Idle ]

\* fill lines 63-113 with every _assign_contact returning.
Select(w) ==
    /\ pc[w] = "select"
    /\ LET l == loc[w]
           fresh_target == FreshTarget(l.req)
           all_selected == SelectContacts(l.fresh_contacts, l.retouch_contacts,
                                          l.req.volume, fresh_target, EffectiveCap(l.req))
       IN  /\ res' = [ res EXCEPT ![w] =
                         FillResult([ req |-> l.req, selected |-> all_selected,
                                      warnings |-> FillWarnings(l.fresh_contacts, all_selected,
                                                                l.req.volume, fresh_target) ]) ]
           /\ pc' = [ pc EXCEPT ![w] = "selected" ]
           /\ loc' = loc
    /\ UNCHANGED <<db, now, active>>

SpecCap == InitCap /\ [][\E w \in Workers : Select(w)]_vars

(***************************************************************************)
(* Database.query_eligible_contacts on its own: a store with one contact   *)
(* of client_1 and its company, and one call of the query.                 *)
(***************************************************************************)
EligNow == TickDays
EligKey == << "a@acme.com", "client_1" >>
EligTitles == { NullTitle, << "V", "P" >>, << "C", "T", "O" >> }
EligKeywords == { <<>>, << << "v", "p" >> >>, << << "C", "_", "O" >>, << "v", "p", "s" >> >> }
EligStatuses == { FRESH, RETOUCH_ELIGIBLE, IN_SEQUENCE }
EligFilters == { {}, { FRESH }, { RETOUCH_ELIGIBLE } }
EligChannels == { "email", "linkedin" }

\* A contacts row as transitions, the cascade and enrichment can leave it.
EligContactRows ==
    { [ NewContactRow(EligKey[1], title, enriched_at) EXCEPT
          !.disposition_status = status,
          ![ch \o "_suppressed"] = suppressed,
          ![ch \o "_cooldown_until"] = cooldown_until ] :
        title \in EligTitles,
        enriched_at \in { NoTime, EligNow - eligibility_stale_days,
                          EligNow - eligibility_stale_days + 1 },
        status \in EligStatuses,
        ch \in EligChannels,
        suppressed \in BOOLEAN,
        cooldown_until \in { NoTime, EligNow, EligNow + 1 } }

\* A companies row: plain, suppressed or a customer, owned or not.
EligCompanyRows ==
    { [ NewCompanyRow EXCEPT !.contacts_total = 1,
                             !.company_suppressed = flags[1],
                             !.is_customer = flags[2],
                             !.client_owner_id = owner ] :
        flags \in { << FALSE, FALSE >>, << TRUE, FALSE >>, << FALSE, TRUE >> },
        owner \in Clients \cup { NoOwner } }

InitElig ==
    /\ contacts \in [ { EligKey } -> EligContactRows ]
    /\ companies \in [ { DomainOf(EligKey[1]) } -> EligCompanyRows ]
    /\ history = <<>>
    /\ assignments = <<>>
    /\ ownership_log = <<>>
    /\ tam_snapshots = <<>>
    /\ now = EligNow
    /\ active = { "w1" }
    /\ pc = [ w \in Workers |-> IF w = "w1" THEN "query" ELSE "idle" ]
    /\ res = [ w \in Workers |-> NoResult ]
    /\ \E client_id \in Clients, channel \in EligChannels,
          status_filter \in EligFilters, title_keywords \in EligKeywords :
        loc = [ w \in Workers |->
                  IF w = "w1"
                  THEN [ op |-> "query", client_id |-> client_id, channel |-> channel,
                         status_filter |-> status_filter,
                         title_keywords |-> title_keywords ]
                  ELSE Idle ]

\* One call of query_eligible_contacts with the default limit.
Query(w) ==
    /\ pc[w] = "query"
    /\ res' = [ res EXCEPT ![w] =
                  [ kind |-> "ok",
                    contacts |-> query_eligible_contacts(contacts, companies,
                                     loc[w].client_id, loc[w].channel, loc[w].title_keywords,
                                     1000, loc[w].status_filter, now) ] ]
    /\ pc' = [ pc EXCEPT ![w] = "queried" ]
    /\ UNCHANGED <<db, now, active, loc>>

SpecElig == InitElig /\ [][\E w \in Workers : Query(w)]_vars

(***************************************************************************)
(* Properties of StateMachine.transition and of the sweeps and fills that  *)
(* call it.                                                                *)
(***************************************************************************)
\* The rows of the history log about one contact, in the order written.
HistoryOf(key) ==
    SelectSeq(history, LAMBDA h : h.contact_email = key[1] /\ h.contact_client_id = key[2])

\* A request transition validates and refuses: neither the current status nor
\* one of TRANSITIONS[current].
Illegal(current, target) == target # current /\ target \notin TRANSITIONS[current]

\* The steps of transition that follow its validation.
TransitionBody ==
    { "t_update", "t_history", "t_company_get", "t_company_update",
      "t_suppress_get", "t_suppress_update" }

\* C1: every row of the history log records a pair (previous_status,
\* new_status) with new_status in TRANSITIONS[previous_status], or with the
\* two equal, whoever called transition: the API, a fill or a sweep.
C1_HistoryRowsLegal ==
    \A i \in DOMAIN history :
        \/ history[i].new_status \in TRANSITIONS[history[i].previous_status]
        \/ history[i].new_status = history[i].previous_status

\* The log holds a row written for the API, one for a fill and one for a sweep.
C1_Witness ==
    /\ AllIdle
    /\ \A by \in { "ui", "campaign_fill", "system" } :
        \E i \in DOMAIN history : history[i].triggered_by = by

\* C2: a call of transition whose target is neither the current status of the
\* contact nor in TRANSITIONS[current] changes no contact row, no company row
\* and no history row, and a direct call ends with TransitionError; so does
\* every call that asks to move a contact out of a terminal status.
C2_IllegalTransitionRejected ==
    [][ \A w \in Workers :
          ( /\ pc[w] = "t_get"
            /\ pc'[w] # "t_get" \/ loc'[w] # loc[w]
            /\ loc[w].t.key \in DOMAIN contacts
            /\ LET current == contacts[loc[w].t.key].disposition_status
                   target == loc[w].t.new_status
               IN  \/ Illegal(current, target)
                   \/ current \in TERMINAL_STATES /\ target # current )
          => /\ contacts' = contacts
             /\ companies' = companies
             /\ history' = history
             /\ pc'[w] \notin TransitionBody
             /\ loc[w].op = "transition"
                  => pc'[w] = "idle" /\ res'[w] = [ kind |-> "TransitionError" ] ]_vars

\* A direct call has just been refused, and a contact is in a terminal status.
C2_Witness ==
    /\ \E w \in Workers : pc[w] = "idle" /\ res[w] = [ kind |-> "TransitionError" ]
    /\ \E k \in DOMAIN contacts : contacts[k].disposition_status \in TERMINAL_STATES
    /\ \E k \in DOMAIN contacts : contacts[k].disposition_status \notin TERMINAL_STATES

\* C3: terminal closure.  Once the log holds a row that moved a contact into
\* REPLIED_HARD_NO, BOUNCED, UNSUBSCRIBED or WON_CUSTOMER, it holds no later
\* row about that contact, whatever is requested afterwards.
C3_TerminalClosure ==
    \A k \in ContactKeys :
        \A i \in DOMAIN HistoryOf(k) :
            HistoryOf(k)[i].new_status \in TERMINAL_STATES => i = Len(HistoryOf(k))

\* C4: a call of transition whose target is the current status of the contact
\* is a no-op: none of its steps changes a contact row, a company row or the
\* history log.
C4_SameStateIsNoOp ==
    [][ \A w \in Workers :
          ( /\ pc[w] \in TransitionBody
            /\ loc[w].t.current = loc[w].t.new_status )
          => /\ contacts' = contacts
             /\ companies' = companies
             /\ history' = history ]_vars

\* C5: counter consistency.  Whenever no operation is in progress, the
\* contacts_in_sequence of every company is the number of contacts at its
\* domain, of any client, whose status is IN_SEQUENCE.
C5_CounterConsistency ==
    AllIdle =>
        \A d \in DOMAIN companies :
            companies[d].contacts_in_sequence =
                Cardinality({ k \in get_contacts_by_domain(contacts, d) :
                                contacts[k].disposition_status = IN_SEQUENCE })

\* C6: suppression cascade.  Between operations, a contact in REPLIED_HARD_NO
\* has a company with company_suppressed set, and every contact at that
\* domain, of any client and whenever it was inserted, has email_suppressed set.
C6_SuppressionCascade ==
    AllIdle =>
        \A k \in DOMAIN contacts :
            contacts[k].disposition_status = REPLIED_HARD_NO =>
                /\ contacts[k].company_domain \in DOMAIN companies
                /\ companies[contacts[k].company_domain].company_suppressed
                /\ \A k2 \in get_contacts_by_domain(contacts, contacts[k].company_domain) :
                     contacts[k2].email_suppressed

(***************************************************************************)
(* Properties of company ownership under overlapping callers.              *)
(***************************************************************************)
\* The reasons that end or hand over an ownership.
ReleasingReasons == { "manual_release", "admin_transfer", "expired" }

\* C7: ownership monotonicity.  Once every operation has ended and logged,
\* the log of a domain never shows an unowned company claimed by X and, before
\* that claim expires, a change that makes a different client the owner,
\* without a row of reason manual_release, admin_transfer or expired after the
\* claim and up to that change.
C7_OwnershipMonotonic ==
    AllIdle =>
        \A i \in DOMAIN ownership_log, j \in DOMAIN ownership_log :
            ( /\ i < j
              /\ ownership_log[i].company_domain = ownership_log[j].company_domain
              /\ ownership_log[i].change_reason = "first_claim"
              /\ ownership_log[i].previous_owner_id = NoOwner
              /\ ownership_log[j].new_owner_id \notin { NoOwner, ownership_log[i].new_owner_id }
              /\ ownership_log[j].changed_at <
                   ownership_log[i].changed_at + ownership_duration_months * 30 )
            => \E m \in (i + 1)..j :
                 /\ ownership_log[m].company_domain = ownership_log[i].company_domain
                 /\ ownership_log[m].change_reason \in ReleasingReasons

\* C8: cross-client exclusivity.  When a fill for client Y writes a contact's
\* IN_SEQUENCE status or appends its CampaignAssignment, the company of the
\* contact is unowned or owned by Y, whatever other fills did since Y's query.
C8_CrossClientExclusivity ==
    [][ \A w \in Workers :
          ( /\ loc[w].op = "fill"
            /\ pc[w] \in { "t_update", "a_insert" }
            /\ pc'[w] # pc[w] )
          => LET domain == loc[w].selected[loc[w].idx].company_domain
             IN  companies[domain].client_owner_id \in { NoOwner, loc[w].req.client_id } ]_vars

\* The store the overlapping callers start from is one the sequential
\* callers reach by importing.
InitConcReached ==
    /\ DOMAIN contacts = ImportedKeys
    /\ \A k \in ImportedKeys : contacts[k] = NewContactRow(k[1], TitleOf(k[1]), 0)
    /\ companies = [ d \in { "acme.com" } |->
                       [ NewCompanyRow EXCEPT !.contacts_total = Cardinality(ImportedKeys) ] ]
    /\ history = <<>> /\ assignments = <<>> /\ ownership_log = <<>> /\ tam_snapshots = <<>>
    /\ now = 0 /\ AllIdle

(***************************************************************************)
(* Properties of the selection of a fill.                                  *)
(***************************************************************************)
\* The contacts of a result at one domain.
ResultAt(result, domain) ==
    { i \in DOMAIN result.contacts : result.contacts[i].company_domain = domain }

Contains(text, word) ==
    \E start \in 0..(Len(text) - Len(word)) :
        \A i \in DOMAIN word : text[start + i] = word[i]

\* The statuses a call asks for: those given, or fresh and retouch_eligible.
Requested(status_filter) ==
    IF status_filter = {} THEN { FRESH, RETOUCH_ELIGIBLE } ELSE status_filter

\* The eight predicates of eligibility that do not look at the title, on a
\* returned contact: client, status, channel suppression, channel cooldown,
\* company suppression, customer, owner, freshness of the data.
EligibleButTitle(w, r) ==
    LET c == contacts[r.key]
        co == companies[c.company_domain]
        a == loc[w]
    IN  /\ r.key[2] = a.client_id
        /\ c.disposition_status \in Requested(a.status_filter)
        /\ ~ c[a.channel \o "_suppressed"]
        /\ c[a.channel \o "_cooldown_until"] = NoTime
             \/ c[a.channel \o "_cooldown_until"] <= now
        /\ ~ co.company_suppressed
        /\ ~ co.is_customer
        /\ co.client_owner_id = NoOwner \/ co.client_owner_id = a.client_id
        /\ c.data_enriched_at = NoTime \/ c.data_enriched_at > now - 180

\* C10 as amended: every contact the query returns satisfies the eight
\* predicates above and, when keywords are supplied, has a title that is not
\* null and whose lower case matches the pattern %keyword% in lower case for
\* one of the keywords, where _ and % in a keyword are LIKE wildcards.
C10_EligibilitySound ==
    \A w \in Workers :
        pc[w] = "queried" =>
            \A i \in DOMAIN res[w].contacts :
                LET r == res[w].contacts[i] IN
                /\ EligibleButTitle(w, r)
                /\ loc[w].title_keywords # <<>> =>
                     /\ contacts[r.key].last_known_title # NullTitle
                     /\ \E n \in DOMAIN loc[w].title_keywords :
                          Like(<< "%" >> \o Lower(loc[w].title_keywords[n]) \o << "%" >>,
                               Lower(contacts[r.key].last_known_title))

\* C10 as stated: with keywords supplied, the title of every returned contact
\* contains one of the keywords (letter case apart).
C10_TitleContainsKeyword ==
    \A w \in Workers :
        pc[w] = "queried" =>
            \A i \in DOMAIN res[w].contacts :
                LET r == res[w].contacts[i] IN
                /\ EligibleButTitle(w, r)
                /\ loc[w].title_keywords # <<>> =>
                     /\ contacts[r.key].last_known_title # NullTitle
                     /\ \E n \in DOMAIN loc[w].title_keywords :
                          Contains(Lower(contacts[r.key].last_known_title),
                                   Lower(loc[w].title_keywords[n]))

\* A query with keywords returns a retouch-eligible contact whose cooldown
\* has just run out, of a company its client owns.
C10_Witness ==
    \E w \in Workers :
        /\ pc[w] = "queried"
        /\ loc[w].title_keywords # <<>>
        /\ loc[w].status_filter # {}
        /\ Len(res[w].contacts) = 1
        /\ contacts[EligKey].disposition_status = RETOUCH_ELIGIBLE
        /\ contacts[EligKey][loc[w].channel \o "_cooldown_until"] = now
        /\ companies[DomainOf(EligKey[1])].client_owner_id = loc[w].client_id

\* History rows i and j are about the same contact.
SameContact(i, j) ==
    /\ history[i].contact_email = history[j].contact_email
    /\ history[i].contact_client_id = history[j].contact_client_id

\* Row i records a contact entering IN_SEQUENCE; row i records one leaving it.
Enters(i) ==
    history[i].new_status = IN_SEQUENCE /\ history[i].previous_status # IN_SEQUENCE

Leaves(i) ==
    history[i].previous_status = IN_SEQUENCE /\ history[i].new_status # IN_SEQUENCE

\* C13: one effective transition into IN_SEQUENCE per stay.  Two history
\* rows that record the same contact entering IN_SEQUENCE have a row between
\* them that records this contact leaving IN_SEQUENCE, also when two workers
\* assign the contact at the same time.
C13_OneEntryPerStay ==
    \A i, j \in DOMAIN history :
        (i < j /\ SameContact(i, j) /\ Enters(i) /\ Enters(j))
            => \E k \in (i + 1)..(j - 1) : SameContact(i, k) /\ Leaves(k)

\* The rows of contacts at domain d that satisfy the test.
RowsAt(d, Test(_)) ==
    { i \in DOMAIN history :
        /\ DomainOf(history[i].contact_email) = d
        /\ Test(i) }

\* C14: company counter updates are not lost.  Between operations, when the
\* contacts that entered IN_SEQUENCE at a company are distinct contacts and
\* none has left, contacts_in_sequence and contacts_touched of the company
\* have each grown by one for every one of them.
C14_NoLostCounterUpdate ==
    AllIdle =>
        \A d \in DOMAIN companies :
            LET entered == RowsAt(d, Enters) IN
            (/\ RowsAt(d, Leaves) = {}
             /\ \A i, j \in entered : i # j => ~ SameContact(i, j)
             /\ \A i \in RowsAt(d, LAMBDA r : TRUE) : Enters(i))
                => /\ companies[d].contacts_in_sequence = Cardinality(entered)
                   /\ companies[d].contacts_touched = Cardinality(entered)

\* C17: for every company, in every state,
\* 0 <= contacts_in_sequence <= contacts_total.
C17_InSequenceWithinTotal ==
    \A d \in DOMAIN companies :
        /\ 0 <= companies[d].contacts_in_sequence
        /\ companies[d].contacts_in_sequence <= companies[d].contacts_total

\* C19: in every state a contact in BOUNCED, UNSUBSCRIBED or REPLIED_HARD_NO
\* has email_suppressed set, and a contact in REPLIED_HARD_NO has
\* linkedin_suppressed and phone_suppressed set as well.
C19_TerminalSuppressed ==
    \A k \in DOMAIN contacts :
        /\ contacts[k].disposition_status \in { BOUNCED, UNSUBSCRIBED, REPLIED_HARD_NO }
            => contacts[k].email_suppressed
        /\ contacts[k].disposition_status = REPLIED_HARD_NO
            => contacts[k].linkedin_suppressed /\ contacts[k].phone_suppressed

\* A contact went through transition to REPLIED_HARD_NO and the call, with its
\* cascade, is over.
C19_Witness ==
    /\ AllIdle
    /\ \E k \in DOMAIN contacts : contacts[k].disposition_status = REPLIED_HARD_NO

(***************************************************************************)
(* core/database.py get_tam_pools: the six CASE WHEN tests of the          *)
(* aggregate, and the counts it returns.                                   *)
(***************************************************************************)
\* The pools whose CASE WHEN test the contact row c passes at time at.
PoolsOf(c, at) ==
    { pool \in { "never_touched", "in_cooldown", "available_now",
                 "permanent_suppress", "in_sequence", "won_customer" } :
        CASE pool = "never_touched" ->
                c.disposition_status = FRESH /\ c.sequence_count = 0
          [] pool = "in_cooldown" ->
                /\ c.disposition_status \in { COMPLETED_NO_RESPONSE, REPLIED_NEUTRAL,
                                              REPLIED_NEGATIVE, LOST_CLOSED }
                /\ c.email_cooldown_until # NoTime
                /\ c.email_cooldown_until > at
          [] pool = "available_now" ->
                /\ c.disposition_status \in { FRESH, RETOUCH_ELIGIBLE }
                /\ ~ c.email_suppressed
                /\ (c.email_cooldown_until = NoTime \/ c.email_cooldown_until <= at)
          [] pool = "permanent_suppress" ->
                c.disposition_status \in { REPLIED_HARD_NO, BOUNCED, UNSUBSCRIBED }
          [] pool = "in_sequence" -> c.disposition_status = IN_SEQUENCE
          [] OTHER -> c.disposition_status = WON_CUSTOMER }

\* get_tam_pools(client_id): client_id NoOwner stands for None, every client.
get_tam_pools(ctbl, client_id, at) ==
    LET scope == { k \in DOMAIN ctbl : client_id = NoOwner \/ k[2] = client_id }
        count(pool) == Cardinality({ k \in scope : pool \in PoolsOf(ctbl[k], at) })
    IN  [ total_universe |-> Cardinality(scope),
          never_touched |-> count("never_touched"),
          in_cooldown |-> count("in_cooldown"),
          available_now |-> count("available_now"),
          permanent_suppress |-> count("permanent_suppress"),
          in_sequence |-> count("in_sequence"),
          won_customer |-> count("won_customer") ]

\* C16: pool disjointness.  In every state no contact passes the test of two
\* of the six pools, and for every client filter the six counts of
\* get_tam_pools sum to at most total_universe.
C16_PoolsDisjoint ==
    /\ \A k \in DOMAIN contacts : Cardinality(PoolsOf(contacts[k], now)) <= 1
    /\ \A client_id \in Clients \cup { NoOwner } :
        LET pools == get_tam_pools(contacts, client_id, now) IN
        pools.never_touched + pools.in_cooldown + pools.available_now
            + pools.permanent_suppress + pools.in_sequence + pools.won_customer
                <= pools.total_universe

(***************************************************************************)
(* waterfall/writeback.py write_back_leads over                            *)
(* Database.bulk_create_contacts, called again and again by one caller.    *)
(***************************************************************************)
MaxBatch == 2

\* The leads a provider returns: email and company_domain as sent ("" stands
\* for None), one of them a second spelling of a@acme.com, one with a
\* company_domain of its own, one without an "@".
ExternalLeads ==
    { [ email |-> "a@acme.com", company_domain |-> "" ],
      [ email |-> " A@Acme.com", company_domain |-> "" ],
      [ email |-> "b@acme.com", company_domain |-> "Zeta.io" ],
      [ email |-> "nobody", company_domain |-> "" ] }

LeadBatches == UNION { [ 1..n -> ExternalLeads ] : n \in 0..MaxBatch }

\* str.lower().strip() on the strings above.
LowerStrip(str) ==
    CASE str = " A@Acme.com" -> "a@acme.com"
      [] str = "Acme.com" -> "acme.com"
      [] str = "Zeta.io" -> "zeta.io"
      [] OTHER -> str

\* lead.email.split("@")[1].
SplitDomain(email) == IF email = " A@Acme.com" THEN "Acme.com" ELSE "acme.com"

NoContact == [ none |-> TRUE ]

\* external_lead_to_contact: None without an "@", else the Contact with the
\* normalised email and domain.
external_lead_to_contact(lead, client_id) ==
    IF lead.email = "nobody"
    THEN NoContact
    ELSE [ email |-> LowerStrip(lead.email),
           client_id |-> client_id,
           company_domain |-> LowerStrip(IF lead.company_domain = ""
                                         THEN SplitDomain(lead.email)
                                         ELSE lead.company_domain) ]

\* One round of the loop of bulk_create_contacts that adds 1 to
\* contacts_total whether or not the row was inserted.
bulk_create_one_counting_ignored(st, contact, at) ==
    LET key == << contact.email, contact.client_id >>
        domain == contact.company_domain
        ensured == IF domain \in DOMAIN st.companies
                   THEN st.companies
                   ELSE (domain :> NewCompanyRow) @@ st.companies
    IN  IF key \in DOMAIN st.contacts
        THEN [ st EXCEPT !.companies = [ ensured EXCEPT ![domain].contacts_total = @ + 1 ] ]
        ELSE [ contacts |-> (key :> [ NewContactRow(contact.email, NullTitle, at)
                                        EXCEPT !.company_domain = domain ]) @@ st.contacts,
               companies |-> [ ensured EXCEPT ![domain].contacts_total = @ + 1 ],
               inserted |-> st.inserted + 1 ]

\* C35 mutant: INSERT OR REPLACE in place of INSERT OR IGNORE, so that the
\* row of an existing contact is replaced by the new FRESH row.
bulk_create_one_replacing(st, contact, at) ==
    LET key == << contact.email, contact.client_id >>
        domain == contact.company_domain
        ensured == IF domain \in DOMAIN st.companies
                   THEN st.companies
                   ELSE (domain :> NewCompanyRow) @@ st.companies
        row == [ NewContactRow(contact.email, NullTitle, at)
                    EXCEPT !.company_domain = domain ]
    IN  IF key \in DOMAIN st.contacts
        THEN [ st EXCEPT !.contacts = (key :> row) @@ @, !.companies = ensured ]
        ELSE [ contacts |-> (key :> row) @@ st.contacts,
               companies |-> [ ensured EXCEPT ![domain].contacts_total = @ + 1 ],
               inserted |-> st.inserted + 1 ]

\* One round of the loop of bulk_create_contacts (lines 264-298):
\* _ensure_company, INSERT OR IGNORE, and when changes() > 0 the increment of
\* contacts_total and of inserted.
bulk_create_one(st, contact, at) ==
    LET key == << contact.email, contact.client_id >>
        domain == contact.company_domain
        ensured == IF domain \in DOMAIN st.companies
                   THEN st.companies
                   ELSE (domain :> NewCompanyRow) @@ st.companies
    IN  IF key \in DOMAIN st.contacts
        THEN [ st EXCEPT !.companies = ensured ]
        ELSE [ contacts |-> (key :> [ NewContactRow(contact.email, NullTitle, at)
                                        EXCEPT !.company_domain = domain ]) @@ st.contacts,
               companies |-> [ ensured EXCEPT ![domain].contacts_total = @ + 1 ],
               inserted |-> st.inserted + 1 ]

RECURSIVE bulk_create_contacts(_, _, _)
bulk_create_contacts(st, list, at) ==
    IF list = <<>>
    THEN st
    ELSE bulk_create_contacts(bulk_create_one(st, Head(list), at), Tail(list), at)

\* write_back_leads(db, leads, client_id): the mapping of the leads, the bulk
\* insert, and the WriteBackResult.  repeat tells that the caller passes the
\* batch and client of its previous call.
WriteBack(w) ==
    /\ pc[w] = "idle" /\ w \in active
    /\ \E leads \in LeadBatches, client_id \in Clients :
        LET mapped == [ i \in DOMAIN leads |-> external_lead_to_contact(leads[i], client_id) ]
            list == SelectSeq(mapped, LAMBDA c : c # NoContact)
            done == bulk_create_contacts(
                        [ contacts |-> contacts, companies |-> companies, inserted |-> 0 ],
                        list, now)
        IN  /\ contacts' = done.contacts
            /\ companies' = done.companies
            /\ loc' = [ loc EXCEPT ![w] =
                          [ op |-> "write_back",
                            leads |-> leads,
                            client_id |-> client_id,
                            repeat |-> /\ loc[w].op = "write_back"
                                       /\ loc[w].leads = leads
                                       /\ loc[w].client_id = client_id ] ]
            /\ res' = [ res EXCEPT ![w] =
                          [ kind |-> "ok",
                            total_processed |-> Len(leads),
                            new_inserted |-> done.inserted,
                            duplicates_skipped |-> Len(list) - done.inserted,
                            invalid_skipped |-> Len(leads) - Len(list) ] ]
    /\ UNCHANGED <<history, assignments, ownership_log, tam_snapshots, now, active, pc>>

SpecWriteBack == Init /\ [][\E w \in Workers : WriteBack(w)]_vars

\* C15: write-back idempotence.  A call of write_back_leads with the batch
\* and client_id of the call before it reports new_inserted = 0, creates no
\* contact row and no company row, and leaves contacts_total of every company
\* as it was.
C15_WriteBackIdempotent ==
    [][ \A w \in Workers :
          (/\ loc[w].op = "write_back"
           /\ loc'[w].op = "write_back"
           /\ loc'[w].leads = loc[w].leads
           /\ loc'[w].client_id = loc[w].client_id)
              => /\ res'[w].new_inserted = 0
                 /\ DOMAIN contacts' = DOMAIN contacts
                 /\ DOMAIN companies' = DOMAIN companies
                 /\ \A d \in DOMAIN companies :
                        companies'[d].contacts_total = companies[d].contacts_total ]_vars

\* A batch that inserted rows was passed again, and its rows were skipped as
\* duplicates.
C15_Witness ==
    \E w \in Workers :
        /\ loc[w].op = "write_back"
        /\ loc[w].repeat
        /\ res[w].new_inserted = 0
        /\ res[w].duplicates_skipped = MaxBatch
        /\ Cardinality(DOMAIN contacts) >= 2

(***************************************************************************)
(* One caller of the transition API on the imported store, for as many     *)
(* calls as take a contact from FRESH to WON_CUSTOMER and then move the    *)
(* other contact of the company.                                           *)
(***************************************************************************)
MaxApiRows == 4

InitApi == InitImported /\ active = { "w1" }

SpecApi ==
    InitApi /\ [][
        \E w \in Workers :
            \/ StartTransition(w, ImportedKeys, DispositionStatus, MaxApiRows)
            \/ TransitionSteps(w)
            \/ SuppressSteps(w)
    ]_vars

\* C18: in every state a company with is_customer set has company_status
\* CUSTOMER; a later transition of another contact at the domain (a hard-no,
\* a contact entering or leaving IN_SEQUENCE) does not overwrite the status.
C18_CustomerStatusKept ==
    \A d \in DOMAIN companies :
        companies[d].is_customer => companies[d].company_status = "customer"

(***************************************************************************)
(* Fills and calls of the transition API that overlap, on the imported     *)
(* store.                                                                  *)
(***************************************************************************)
\* The API callers ask for the status a fill asks for, or for one of two
\* terminal statuses.
SpecRace ==
    InitConc /\ [][
        \E w \in Workers :
            \/ StartTransition(w, ImportedKeys,
                               { IN_SEQUENCE, BOUNCED, REPLIED_HARD_NO }, MaxHist)
            \/ StartFill(w, ConcRequests)
            \/ TransitionSteps(w)
            \/ SuppressSteps(w)
            \/ FillSteps(w)
            \/ OwnershipSteps(w)
    ]_vars

\* The contact a fill of worker w is assigning.
Assigned(w) == loc[w].selected[loc[w].idx].key

\* C11: a fill never assigns a terminal contact.  Each write of
\* _assign_contact (the transition to IN_SEQUENCE, the increment of
\* sequence_count, the CampaignAssignment row) is made for a contact whose
\* disposition, at the time of the write, is not REPLIED_HARD_NO, BOUNCED,
\* UNSUBSCRIBED or WON_CUSTOMER, also when the contact became terminal after
\* the fill selected it.
C11_NoTerminalAssignment ==
    [][ \A w \in Workers :
          (/\ loc[w].op = "fill"
           /\ pc[w] \in { "t_update", "a_update", "a_insert" }
           /\ pc'[w] # pc[w])
              => contacts[Assigned(w)].disposition_status \notin TERMINAL_STATES ]_vars

(***************************************************************************)
(* A caller that is stopped at an await: every store call of               *)
(* core/database.py commits on its own (conn.commit() at the end of        *)
(* update_contact_fields, update_company_fields, insert_history, ...) and  *)
(* neither transition nor _assign_contact opens a transaction or undoes a  *)
(* write, so a request that is cancelled or fails between two store calls  *)
(* leaves what it has written.  The stopped caller makes no further call.  *)
(***************************************************************************)
Interrupt(w) ==
    /\ pc[w] # "idle"
    /\ pc' = [ pc EXCEPT ![w] = "idle" ]
    /\ loc' = [ loc EXCEPT ![w] = Idle ]
    /\ res' = [ res EXCEPT ![w] = [ kind |-> "interrupted" ] ]
    /\ active' = active \ { w }
    /\ UNCHANGED <<db, now>>

SpecCrash ==
    InitApi /\ [][
        \E w \in Workers :
            \/ StartTransition(w, ImportedKeys, DispositionStatus, MaxHist)
            \/ StartFill(w, ConcRequests)
            \/ TransitionSteps(w)
            \/ SuppressSteps(w)
            \/ FillSteps(w)
            \/ OwnershipSteps(w)
            \/ Interrupt(w)
    ]_vars

\* The steps of _assign_contact that follow its call of transition.
AssignBody == { "a_update", "a_insert", "a_company_get", "o_update", "o_log" }

\* C12: atomicity.  When a transition, or the assignment of one contact by
\* a fill, is interrupted after its first write (the contact update), that
\* write is not visible afterwards: the contact has the disposition it had
\* when the unit began.
C12_InterruptedUnitInvisible ==
    [][ \A w \in Workers :
          (pc[w] # "idle" /\ pc'[w] = "idle" /\ res'[w].kind = "interrupted")
              => /\ (pc[w] \in TransitionBody \ { "t_update" })
                        => contacts'[loc[w].t.key].disposition_status = loc[w].t.current
                 /\ (loc[w].op = "fill" /\ pc[w] \in AssignBody)
                        => contacts'[Assigned(w)].disposition_status
                               = loc[w].selected[loc[w].idx].disposition_status ]_vars

(***************************************************************************)
(* Fills for one client on the linkedin channel and API calls that end a   *)
(* sequence and make the contact eligible again, overlapping, for as many  *)
(* history rows as three assignments of one contact take.                  *)
(***************************************************************************)
MaxStaleRows == 5

StaleRequests ==
    { req \in FillRequests :
        /\ req.client_id = "client_1"
        /\ req.channel = "linkedin"
        /\ req.volume = 1
        /\ req.max_per_company = NoInt }

\* The API calls are for the contact of client_1: completed_no_response sets
\* email_cooldown_until only, so the contact is eligible on linkedin as soon
\* as it is RETOUCH_ELIGIBLE.
SpecStale ==
    InitConc /\ [][
        \E w \in Workers :
            \/ StartTransition(w, { << "a@acme.com", "client_1" >> },
                               { COMPLETED_NO_RESPONSE, RETOUCH_ELIGIBLE }, MaxStaleRows)
            \/ StartFillWithin(w, StaleRequests, MaxStaleRows)
            \/ TransitionSteps(w)
            \/ FillSteps(w)
            \/ OwnershipSteps(w)
    ]_vars

\* C20: sequence_count of a contact never decreases: every step, under
\* every interleaving of fills, leaves each contact with a sequence_count
\* at least as large as before.
C20_SequenceCountMonotonic ==
    [][ \A k \in DOMAIN contacts :
          contacts'[k].sequence_count >= contacts[k].sequence_count ]_vars

\* C24: exhausted inventory is a success.  With one caller at a time every
\* fill returns a CampaignFillResult; its warnings hold the volume-shortfall
\* entry when total_assigned < total_requested, and do not hold it when
\* total_assigned = total_requested.
C24_ShortfallIsSuccess ==
    [][ \A w \in Workers :
          (loc[w].op = "fill" /\ pc[w] # "idle" /\ pc'[w] = "idle")
              => /\ res'[w].kind = "ok"
                 /\ res'[w].total_assigned <= res'[w].total_requested
                 /\ (res'[w].total_assigned < res'[w].total_requested)
                        <=> ("volume_shortfall" \in res'[w].warnings) ]_vars

\* A fill assigned one contact of the two it was asked for and returned with
\* the shortfall entry.
C24_Witness ==
    \E w \in Workers :
        /\ pc[w] = "idle"
        /\ res[w].kind = "ok"
        /\ "total_assigned" \in DOMAIN res[w]
        /\ res[w].total_requested = 2
        /\ res[w].total_assigned = 1
        /\ "volume_shortfall" \in res[w].warnings
        /\ Len(assignments) >= 1

\* The contacts eligible for the request, fresh or retouch, without a limit.
EligibleFor(req) ==
    query_eligible_contacts(contacts, companies, req.client_id, req.channel,
                            req.title_keywords, 1000, { FRESH, RETOUCH_ELIGIBLE }, now)

\* C26: first claim on fill.  A fill for client_1 with volume 1 and the
\* default fresh ratio, when the only eligible contact is a FRESH contact at
\* an unowned domain, selects that contact for assignment; and when a fill
\* of volume 1 has logged its claim, the company is owned by the client of
\* the request, ownership_expires_at is client_owned_at + 360 days, and the
\* last OwnershipChange row is a first_claim for the domain.
C26_FirstClaimOnFill ==
    [][ \A w \in Workers :
          /\ (/\ loc[w].op = "fill"
              /\ pc[w] = "f_query_retouch"
              /\ loc[w].req.client_id = "client_1"
              /\ loc[w].req.volume = 1
              /\ loc[w].req.fresh_ratio = NoInt
              /\ Len(EligibleFor(loc[w].req)) = 1
              /\ EligibleFor(loc[w].req)[1].disposition_status = FRESH
              /\ companies[EligibleFor(loc[w].req)[1].company_domain].client_owner_id
                    = NoOwner)
                => /\ loc'[w].op = "fill"
                   /\ loc'[w].selected = EligibleFor(loc[w].req)
          /\ (loc[w].op = "fill" /\ pc[w] = "o_log" /\ loc[w].req.volume = 1)
                => LET d == loc[w].own.domain IN
                   /\ companies'[d].client_owner_id = loc[w].req.client_id
                   /\ companies'[d].ownership_expires_at = companies'[d].client_owned_at + 360
                   /\ ownership_log'[Len(ownership_log')].change_reason = "first_claim"
                   /\ ownership_log'[Len(ownership_log')].company_domain = d ]_vars

(***************************************************************************)
(* The selection of CampaignFillEngine.fill over an inventory whose        *)
(* eligible contacts are all at different domains: as many fresh and       *)
(* retouch-eligible contacts as the blend asks for, or one more of each.   *)
(***************************************************************************)
MaxBlendVolume == 90

\* n eligible rows of client_1 with the status, the i-th at a domain of its own.
BlendRows(n, status) ==
    [ i \in 1..n |->
        [ key |-> << ToString(i) \o "@" \o status, "client_1" >>,
          company_domain |-> status \o ToString(i) \o ".com",
          disposition_status |-> status,
          sequence_count |-> IF status = FRESH THEN 0 ELSE 1 ] ]

InitBlend ==
    /\ InitDb
    /\ active = { "w1" }
    /\ res = [ w \in Workers |-> NoResult ]
    /\ \E req \in [ campaign_id : { "camp_1" }, client_id : { "client_1" },
                    channel : { "email" }, volume : 1..MaxBlendVolume,
                    title_keywords : { <<>> }, fresh_ratio : { NoInt, 3, 5 },
                    max_per_company : { NoInt } ],
          more_fresh \in 0..1, more_retouch \in 0..1 :
        LET floor == (req.volume * EffectiveRatio(req)) \div 10
            fresh_eligible == floor + more_fresh
            retouch_eligible == (req.volume - floor) + more_retouch
        IN  /\ pc = [ w \in Workers |-> IF w = "w1" THEN "select" ELSE "idle" ]
            /\ loc = [ w \in Workers |->
                         IF w = "w1"
                         THEN [ op |-> "select", req |-> req,
                                fresh_eligible |-> fresh_eligible,
                                retouch_eligible |-> retouch_eligible,
                                fresh_contacts |->
                                    Slice(BlendRows(fresh_eligible, FRESH), 0,
                                          FreshTarget(req) * 2),
                                retouch_contacts |->
                                    Slice(BlendRows(retouch_eligible, RETOUCH_ELIGIBLE), 0,
                                          (req.volume - FreshTarget(req)) * 2) ]
                         ELSE Idle ]

SpecBlend == InitBlend /\ [][\E w \in Workers : Select(w)]_vars

\* C25: fresh/retouch blend.  When at least F = floor(V * r) eligible FRESH
\* contacts and at least R = V - F eligible RETOUCH_ELIGIBLE contacts exist,
\* all at pairwise distinct domains, the result of fill(volume V,
\* fresh_ratio r) has total_assigned = V, fresh_count = F, retouch_count = R
\* and companies_touched = V.
C25_FreshRetouchBlend ==
    \A w \in Workers :
        pc[w] = "selected" =>
            LET V == loc[w].req.volume
                F == (V * EffectiveRatio(loc[w].req)) \div 10
            IN  (loc[w].fresh_eligible >= F /\ loc[w].retouch_eligible >= V - F)
                    => /\ res[w].total_assigned = V
                       /\ res[w].fresh_count = F
                       /\ res[w].retouch_count = V - F
                       /\ res[w].companies_touched = V

(***************************************************************************)
(* The maintenance sweeps, one caller at a time: API transitions of the    *)
(* imported contacts, a manual ownership claim, the clock, and the three   *)
(* sweeps, each running to its end before the next operation starts.       *)
(***************************************************************************)
MaxSweepRows == 5

SpecSweep ==
    InitApi /\ [][ \/ Tick
                   \/ \E w \in Workers :
                        \/ StartTransition(w, ImportedKeys,
                                           { IN_SEQUENCE, COMPLETED_NO_RESPONSE,
                                             REPLIED_POSITIVE, LOST_CLOSED },
                                           MaxSweepRows)
                        \/ ClaimOwnership(w)
                        \/ ExpiredCooldownsWithin(w, MaxSweepRows)
                        \/ \E months \in { NoInt, 0, 11 } :
                                StaleDataWithin(w, months, MaxSweepRows)
                        \/ ProcessExpiredOwnerships(w)
                        \/ TransitionSteps(w)
                        \/ OwnershipSteps(w) ]_vars

\* The step that ends a run of the sweep op of worker w, and the contacts
\* table that run started from.
SweepDone(w, op) ==
    /\ pc'[w] = "idle"
    /\ res'[w] # res[w]
    /\ "op" \in DOMAIN res'[w]
    /\ res'[w].op = op
    /\ loc[w].op \in { op, "none" }

Before(w) == IF "before" \in DOMAIN loc[w] THEN loc[w].before ELSE contacts

\* C28: after process_expired_cooldowns completes, one caller at a time,
\* every contact that had a disposition in {COMPLETED_NO_RESPONSE,
\* REPLIED_NEUTRAL, REPLIED_NEGATIVE, LOST_CLOSED} and a non-null
\* email_cooldown_until <= now is RETOUCH_ELIGIBLE, the returned count is the
\* number of such contacts, and the contacts whose cooldown has not expired
\* are unchanged.
C28_ExpiredCooldownsRetouched ==
    [][ \A w \in Workers :
          SweepDone(w, "expired_cooldowns") =>
              LET before == Before(w)
                  due == { k \in DOMAIN before :
                             /\ before[k].disposition_status \in
                                  { COMPLETED_NO_RESPONSE, REPLIED_NEUTRAL,
                                    REPLIED_NEGATIVE, LOST_CLOSED }
                             /\ before[k].email_cooldown_until # NoTime
                             /\ before[k].email_cooldown_until <= now }
              IN  /\ \A k \in due : contacts'[k].disposition_status = RETOUCH_ELIGIBLE
                  /\ res'[w].count = Cardinality(due)
                  /\ \A k \in DOMAIN before :
                        (before[k].email_cooldown_until # NoTime
                            /\ before[k].email_cooldown_until > now)
                                => contacts'[k] = before[k] ]_vars

\* A run of process_expired_cooldowns returned 1: one contact is
\* RETOUCH_ELIGIBLE and the other is still in a cooldown that has not expired.
C28_Witness ==
    \E w \in Workers :
        /\ pc[w] = "idle"
        /\ "op" \in DOMAIN res[w]
        /\ res[w].op = "expired_cooldowns"
        /\ res[w].count = 1
        /\ \E k \in DOMAIN contacts : contacts[k].disposition_status = RETOUCH_ELIGIBLE
        /\ \E k \in DOMAIN contacts :
              /\ contacts[k].disposition_status \in { COMPLETED_NO_RESPONSE, LOST_CLOSED }
              /\ contacts[k].email_cooldown_until > now

\* The contacts process_stale_data(months) is about: data_enriched_at older
\* than the months (30 days each; None or 0 standing for the configured 6)
\* and a disposition outside the permanent-exclusion set.
StaleBefore(before, months) ==
    LET m == IF months = NoInt \/ months = 0 THEN stale_data_months ELSE months IN
    { k \in DOMAIN before :
        /\ before[k].data_enriched_at # NoTime
        /\ before[k].data_enriched_at < now - m * 30
        /\ before[k].disposition_status \notin
             { REPLIED_HARD_NO, BOUNCED, UNSUBSCRIBED, WON_CUSTOMER, STALE_DATA } }

SpecSweepRace ==
    InitConc /\ [][ \/ Tick
                    \/ \E w \in Workers :
                        \/ StartTransition(w, { << "a@acme.com", "client_1" >> },
                                           { IN_SEQUENCE, COMPLETED_NO_RESPONSE }, 2)
                        \/ ClaimOwnership(w)
                        \/ ProcessExpiredOwnerships(w)
                        \/ TransitionSteps(w)
                        \/ OwnershipSteps(w) ]_vars

\* C27: process_expired_ownerships clears the ownership only of companies
\* that have an owner, ownership_expires_at <= now and contacts_in_sequence
\* = 0, and logs one OwnershipChange with reason expired for each; a company
\* with contacts_in_sequence > 0 keeps its owner.
C27_ExpiredOwnershipsOnly ==
    [][ \A w \in Workers :
          (loc[w].op = "expired_ownerships" /\ pc'[w] # pc[w]) =>
              LET d == loc[w].own.domain
                  n == Len(ownership_log)
              IN  /\ pc[w] = "o_update" =>
                        /\ companies[d].client_owner_id # NoOwner
                        /\ companies[d].ownership_expires_at # NoTime
                        /\ companies[d].ownership_expires_at <= now
                        /\ companies[d].contacts_in_sequence = 0
                        /\ companies'[d].client_owner_id = NoOwner
                        /\ \A e \in DOMAIN companies \ { d } : companies'[e] = companies[e]
                        /\ ownership_log' = ownership_log
                  /\ pc[w] = "o_log" =>
                        /\ Len(ownership_log') = n + 1
                        /\ SubSeq(ownership_log', 1, n) = ownership_log
                        /\ ownership_log'[n + 1].company_domain = d
                        /\ ownership_log'[n + 1].change_reason = "expired"
                        /\ ownership_log'[n + 1].new_owner_id = NoOwner
                        /\ companies' = companies ]_vars

\* C30: a maintenance sweep run a second time immediately after the first,
\* with no other operation and no clock advance in between, changes no
\* table, so it appends no history and no ownership-change row, and it
\* returns 0.
C30_SweepAgainIsNoOp ==
    [][ \A w \in Workers :
          /\ ("again" \in DOMAIN loc[w] /\ loc[w].again) =>
                <<contacts, companies, history, assignments, ownership_log>>' =
                    <<contacts, companies, history, assignments, ownership_log>>
          /\ ("again" \in DOMAIN res'[w] /\ res'[w].again) => res'[w].count = 0 ]_vars

\* A second run of process_stale_data has returned, after a first run that
\* flagged a contact and found another it could not flag.
C30_Witness ==
    \E w \in Workers :
        /\ pc[w] = "idle"
        /\ "again" \in DOMAIN res[w]
        /\ res[w].again
        /\ res[w].op = "stale_data"
        /\ Len(history) > 0
        /\ history[Len(history)].new_status = STALE_DATA
        /\ \E k \in DOMAIN contacts : contacts[k].disposition_status = IN_SEQUENCE

(***************************************************************************)
(* WaterfallEngine.fill_campaign, one caller at a time, over the imported  *)
(* store: the internal fill, the provider cascade, the write-back and the  *)
(* refill.  A provider's search_leads raises or returns leads, credits and *)
(* errors, whatever the limit it was given.                                *)
(***************************************************************************)
MaxCredits == 2
MaxWaterfallRows == 2

\* WaterfallFillRequest for client_1, with the engine's waterfall_enabled and
\* waterfall_provider_order settings; the credits are whole numbers, an
\* override of None is the empty list.
WaterfallRequests ==
    [ campaign_id : { "camp_1" },
      client_id : { "client_1" },
      channel : { "email" },
      volume : 1..MaxVolume,
      title_keywords : { <<>> },
      fresh_ratio : { NoInt, 10 },
      max_per_company : { NoInt, 1 },
      enable_external : BOOLEAN,
      max_external_credits : 0..MaxCredits,
      providers_override : { <<>>, << "clay", "ai_ark" >> },
      waterfall_enabled : BOOLEAN,
      waterfall_provider_order : { waterfall_provider_order,
                                   << "internal", "clay", "ai_ark" >> } ]

\* LeadProvider.search_leads: an exception, or a ProviderResult.
ProviderOutcomes ==
    LET known == [ email |-> "a@acme.com", company_domain |-> "" ]
        new == [ email |-> "b@acme.com", company_domain |-> "Zeta.io" ]
        colleague == [ email |-> "b@acme.com", company_domain |-> "" ]
    IN  { [ raised |-> TRUE ] }
            \cup [ raised : { FALSE },
                   leads : { <<>>, << known >>, << new >>, << known, new >>,
                             << colleague >> },
                   credits_consumed : 0..1,
                   errors : { {} } ]
            \cup { [ raised |-> FALSE, leads |-> <<>>, credits_consumed |-> 0,
                     errors |-> { "rate limited" } ] }

\* fill_campaign lines 95-113, up to the first store call of the internal fill.
StartWaterfall(w) ==
    /\ pc[w] = "idle" /\ w \in active
    /\ \E req \in WaterfallRequests :
        /\ Len(history) + req.volume <= MaxWaterfallRows
        /\ pc' = [ pc EXCEPT ![w] = "f_query_retouch" ]
        /\ loc' = [ loc EXCEPT ![w] =
                      [ wf |-> [ req |-> req, stage |-> "internal" ] ]
                          @@ FillFrame([ campaign_id |-> req.campaign_id,
                                         client_id |-> req.client_id,
                                         channel |-> req.channel,
                                         volume |-> req.volume,
                                         title_keywords |-> req.title_keywords,
                                         fresh_ratio |-> req.fresh_ratio,
                                         max_per_company |-> req.max_per_company ],
                                       contacts, companies, now) ]
        /\ res' = [ res EXCEPT ![w] = NoResult ]
    /\ UNCHANGED <<db, now, active>>

\* fill_campaign lines 173-200: the awaited search_leads ends.
W_search(w) ==
    /\ pc[w] = "w_search"
    /\ \E outcome \in ProviderOutcomes :
        Resume(w, provider_round(loc[w].wf, outcome))
    /\ UNCHANGED <<db, now, active>>

\* fill_campaign lines 203-230: write_back_leads, and the refill up to its
\* first store call when rows were inserted and contacts are still missing.
W_write_back(w) ==
    /\ pc[w] = "w_write_back"
    /\ LET wf == loc[w].wf
           req == wf.req
           mapped == [ i \in DOMAIN wf.leads |->
                         external_lead_to_contact(wf.leads[i], req.client_id) ]
           list == SelectSeq(mapped, LAMBDA c : c # NoContact)
           done == bulk_create_contacts(
                       [ contacts |-> contacts, companies |-> companies, inserted |-> 0 ],
                       list, now)
           after == [ wf EXCEPT !.result.write_back_count = done.inserted,
                                !.stage = "refill" ]
           remaining == req.volume - wf.result.total_assigned
       IN  /\ contacts' = done.contacts
           /\ companies' = done.companies
           /\ IF done.inserted > 0 /\ remaining > 0
              THEN /\ pc' = [ pc EXCEPT ![w] = "f_query_retouch" ]
                   /\ loc' = [ loc EXCEPT ![w] =
                                 [ wf |-> after ]
                                     @@ FillFrame([ campaign_id |-> req.campaign_id,
                                                    client_id |-> req.client_id,
                                                    channel |-> req.channel,
                                                    volume |-> remaining,
                                                    title_keywords |-> req.title_keywords,
                                                    fresh_ratio |-> 10,
                                                    max_per_company |-> req.max_per_company ],
                                                  done.contacts, done.companies, now) ]
                   /\ res' = res
              ELSE Resume(w, WaterfallReturn(after))
    /\ UNCHANGED <<history, assignments, ownership_log, tam_snapshots, now, active>>

SpecWaterfall ==
    InitApi /\ [][ \E w \in Workers :
                     \/ StartWaterfall(w)
                     \/ W_search(w)
                     \/ W_write_back(w)
                     \/ TransitionSteps(w)
                     \/ FillSteps(w)
                     \/ OwnershipSteps(w) ]_vars

\* The WaterfallFillResult of worker w: returned, or as built so far.
HasWaterfallResult(w) ==
    \/ pc[w] = "idle" /\ "op" \in DOMAIN res[w] /\ res[w].op = "waterfall"
    \/ "wf" \in DOMAIN loc[w] /\ "result" \in DOMAIN loc[w].wf

WaterfallSoFar(w) == IF pc[w] = "idle" THEN res[w] ELSE loc[w].wf.result

\* The sum of a field over the first n searches.
RECURSIVE SumOf(_, _, _)
SumOf(calls, field, n) ==
    IF n = 0 THEN 0 ELSE SumOf(calls, field, n - 1) + calls[n][field]

\* C21: an exception raised by a provider's search_leads does not end
\* fill_campaign.  The step that handles it records a warning for the
\* provider, adds no leads, no credits and no per-provider entry, leaves the
\* contacts assigned so far as they are, and goes on to await the search of
\* the next provider in order when there is one; a step that ends the call
\* returns a WaterfallFillResult.
C21_ProviderFailureContained ==
    [][ \A w \in Workers :
          pc[w] = "w_search" =>
              /\ pc'[w] = "idle" => (res'[w].kind = "ok" /\ res'[w].op = "waterfall")
              /\ LET old == loc[w].wf
                     r == IF pc'[w] = "idle" THEN res'[w] ELSE loc'[w].wf.result
                     call == r.calls[Len(r.calls)]
                     name == ActiveProviders(old.req)[old.next]
                 IN  call.raised =>
                         /\ call.provider = name
                         /\ (name \o " error") \in r.warnings
                         /\ name \notin DOMAIN r.per_provider_counts
                         /\ name \notin DOMAIN r.credits_consumed
                         /\ r.contacts = old.result.contacts
                         /\ r.total_assigned = old.result.total_assigned
                         /\ pc'[w] # "idle" =>
                               /\ loc'[w].wf.leads = old.leads
                               /\ loc'[w].wf.total_credits = old.total_credits
                               /\ loc'[w].wf.deficit = old.deficit
                         /\ old.next < Len(ActiveProviders(old.req)) =>
                               /\ pc'[w] = "w_search"
                               /\ loc'[w].wf.next = old.next + 1 ]_vars

\* fill_campaign returned after its first provider raised and its second
\* provider returned a lead.
C21_Witness ==
    \E w \in Workers :
        /\ pc[w] = "idle"
        /\ "op" \in DOMAIN res[w]
        /\ res[w].op = "waterfall"
        /\ Len(res[w].calls) >= 2
        /\ res[w].calls[1].raised
        /\ "ai_ark error" \in res[w].warnings
        /\ ~res[w].calls[2].raised
        /\ res[w].calls[2].found >= 1

\* C22: credit budget.  Every provider search the waterfall awaited or is
\* awaiting started with the credits reported by the searches before it
\* below max_external_credits; the credit-limit warning is in the result
\* exactly when the cascade stopped before a provider it still needed
\* because those credits had reached the maximum.
C22_CreditBudget ==
    \A w \in Workers :
        HasWaterfallResult(w) =>
            LET r == WaterfallSoFar(w)
                max == r.request.max_external_credits
                n == Len(r.calls)
                spent == SumOf(r.calls, "credits", n)
                missing == r.total_requested - r.internal_filled
                              - SumOf(r.calls, "found", n)
            IN  /\ \A i \in 1..n : SumOf(r.calls, "credits", i - 1) < max
                /\ pc[w] = "w_search" => spent < max
                /\ "credit_limit" \in r.warnings =>
                      (spent >= max /\ pc[w] # "w_search")
                /\ ( /\ pc[w] # "w_search"
                     /\ r.request.enable_external
                     /\ r.request.waterfall_enabled
                     /\ spent >= max
                     /\ n < Len(ActiveProviders(r.request))
                     /\ missing > 0 )
                        => "credit_limit" \in r.warnings

\* fill_campaign returned with the credit-limit warning after two searches.
C22_Witness ==
    \E w \in Workers :
        /\ pc[w] = "idle"
        /\ "op" \in DOMAIN res[w]
        /\ res[w].op = "waterfall"
        /\ "credit_limit" \in res[w].warnings
        /\ Len(res[w].calls) = 2

\* C23: in every WaterfallFillResult total_assigned = internal_filled +
\* external_filled, total_assigned <= total_requested, total_assigned is the
\* number of contacts in the result, and no contact is in the result twice.
C23_WaterfallResultConsistent ==
    \A w \in Workers :
        (pc[w] = "idle" /\ "op" \in DOMAIN res[w] /\ res[w].op = "waterfall") =>
            /\ res[w].total_assigned = res[w].internal_filled + res[w].external_filled
            /\ res[w].total_assigned <= res[w].total_requested
            /\ res[w].total_assigned = Len(res[w].contacts)
            /\ \A i, j \in DOMAIN res[w].contacts :
                  i # j => res[w].contacts[i].key # res[w].contacts[j].key

\* fill_campaign returned one contact from the internal fill and one from
\* the refill after the write-back.
C23_Witness ==
    \E w \in Workers :
        /\ pc[w] = "idle"
        /\ "op" \in DOMAIN res[w]
        /\ res[w].op = "waterfall"
        /\ res[w].internal_filled = 1
        /\ res[w].external_filled = 1
        /\ Len(res[w].contacts) = 2

\* C33: fill composition.  In every CampaignFillResult the number of retouch
\* contacts is at most R = V - floor(V * r), also when fewer than
\* F = floor(V * r) fresh contacts are available: what is still missing
\* after R retouch contacts comes from fresh contacts only.
C33_RetouchWithinShare ==
    \A w \in Workers :
        pc[w] = "selected" =>
            LET V == loc[w].req.volume
                F == (V * EffectiveRatio(loc[w].req)) \div 10
            IN  res[w].retouch_count <= V - F

\* C36: in every state in which no operation is in progress, the
\* sequence_count of every contact is the number of CampaignAssignment rows
\* recorded for it, also when several fills assign contacts concurrently.
C36_SequenceCountIsAssignments ==
    AllIdle =>
        \A k \in DOMAIN contacts :
            contacts[k].sequence_count =
                Cardinality({ i \in DOMAIN assignments :
                                /\ assignments[i].contact_email = k[1]
                                /\ assignments[i].contact_client_id = k[2] })

\* C37: history chain continuity.  For each contact the DispositionHistory
\* rows form a chain in append order: the previous_status of each row is the
\* new_status of the contact's row before it; and when no operation is in
\* progress the new_status of the contact's latest row is its
\* disposition_status.  This for every interleaving of transitions.
C37_HistoryChain ==
    /\ \A i, j \in DOMAIN history :
          ( /\ i < j
            /\ SameContact(i, j)
            /\ \A k \in (i + 1)..(j - 1) : ~SameContact(i, k) )
              => history[j].previous_status = history[i].new_status
    /\ AllIdle =>
          \A j \in DOMAIN history :
              (\A k \in (j + 1)..Len(history) : ~SameContact(j, k))
                  => contacts[<< history[j].contact_email,
                                 history[j].contact_client_id >>].disposition_status
                        = history[j].new_status

\* C39: in every state a company with company_suppressed set has
\* company_status SUPPRESSED; after a hard-no suppressed the company, a later
\* transition of another contact at the domain (entering or leaving
\* IN_SEQUENCE, WON_CUSTOMER) does not overwrite the status.
C39_SuppressedStatusKept ==
    \A d \in DOMAIN companies :
        companies[d].company_suppressed => companies[d].company_status = "suppressed"

\* C38: check_ownership and claim_ownership agree. In every state, for every
\* existing company and every client for which check_ownership returns true,
\* claim_ownership called in that state accepts the claim (and so makes the
\* client the owner), also when another client's ownership has expired with
\* no contact in sequence and has not been swept.
C38_CheckImpliesClaim ==
    \A domain \in DOMAIN companies, client_id \in Clients :
        check_ownership(companies, domain, client_id, now)
            => claim_ownership_accepts(get_company(companies, domain), client_id)

\* C40: the per-company cap holds for the result of one fill_campaign call:
\* among the contacts of the internal pass and the refill pass together, no
\* company_domain appears more than max_per_company times.
C40_WaterfallCompanyCap ==
    \A w \in Workers :
        (pc[w] = "idle" /\ "op" \in DOMAIN res[w] /\ res[w].op = "waterfall") =>
            LET counts == count_by_company(res[w].contacts) IN
            \A d \in DOMAIN counts : counts[d] <= EffectiveCap(res[w].request)

\* The searches of the fill_campaign call of worker w, finished or not, in
\* the order they were awaited.
Searches(w) == WaterfallSoFar(w).calls

\* The index of a provider name in the configured order.
ConfiguredIndex(req, name) ==
    CHOOSE i \in DOMAIN req.waterfall_provider_order :
        req.waterfall_provider_order[i] = name

\* C34: cascade order.  The providers a fill_campaign call searched are
\* searched in the configured name order; each search was given the deficit
\* of that moment as its limit, the deficit being the volume less the
\* contacts of the internal fill and the leads the earlier searches
\* returned; that deficit was above 0; and no search is made when the
\* request or the settings disable external search or the internal fill met
\* the volume.
C34_CascadeOrder ==
    \A w \in Workers :
        HasWaterfallResult(w) =>
            LET r == WaterfallSoFar(w)
                calls == Searches(w)
                deficit(i) == r.total_requested - r.internal_filled
                                 - SumOf(calls, "found", i - 1)
            IN  /\ \A i \in DOMAIN calls :
                      /\ calls[i].limit = deficit(i)
                      /\ deficit(i) > 0
                /\ \A i, j \in DOMAIN calls :
                      i < j => ConfiguredIndex(r.request, calls[i].provider)
                                  < ConfiguredIndex(r.request, calls[j].provider)
                /\ ( \/ ~r.request.enable_external
                     \/ ~r.request.waterfall_enabled
                     \/ r.internal_filled >= r.total_requested ) => calls = <<>>

(***************************************************************************)
(* Write-backs over a store whose contacts have been through transitions:  *)
(* calls of the transition API and of write_back_leads, one at a time.     *)
(***************************************************************************)
MaxWriteBackRows == 2

SpecWriteBackApi ==
    InitApi /\ [][
        \E w \in Workers :
            \/ StartTransition(w, ImportedKeys, DispositionStatus, MaxWriteBackRows)
            \/ TransitionSteps(w)
            \/ SuppressSteps(w)
            \/ WriteBack(w)
    ]_vars

\* The contact key of lead i of a batch written back for a client, and
\* whether the lead has one.
LeadKey(leads, client_id, i) ==
    << external_lead_to_contact(leads[i], client_id).email, client_id >>

ValidLead(leads, client_id, i) ==
    external_lead_to_contact(leads[i], client_id) # NoContact

\* C35: write-back never modifies an existing contact.  A call of
\* write_back_leads (the one step that leaves every worker where it is)
\* leaves the row of every contact of the store as it was, with its status,
\* suppression flags, cooldowns and sequence_count, and duplicates_skipped
\* counts every valid lead whose (email, client_id) was in the store or
\* earlier in the batch.
C35_WriteBackKeepsExisting ==
    [][ pc' = pc =>
          /\ \A k \in DOMAIN contacts :
                k \in DOMAIN contacts' /\ contacts'[k] = contacts[k]
          /\ \A w \in Workers :
                (loc'[w] # loc[w] \/ res'[w] # res[w]) =>
                    LET leads == loc'[w].leads
                        client_id == loc'[w].client_id
                    IN  res'[w].duplicates_skipped =
                            Cardinality({ i \in DOMAIN leads :
                                /\ ValidLead(leads, client_id, i)
                                /\ \/ LeadKey(leads, client_id, i) \in DOMAIN contacts
                                   \/ \E j \in 1..(i - 1) :
                                        /\ ValidLead(leads, client_id, j)
                                        /\ LeadKey(leads, client_id, j)
                                              = LeadKey(leads, client_id, i) }) ]_vars

\* A write-back for client_1 has returned whose batch named a@acme.com and a
\* new contact, while a@acme.com of client_1 is suppressed after a hard no.
C35_Witness ==
    \E w \in Workers :
        /\ pc[w] = "idle"
        /\ loc[w].op = "write_back"
        /\ loc[w].client_id = "client_1"
        /\ \E i \in DOMAIN loc[w].leads : loc[w].leads[i].email = "a@acme.com"
        /\ res[w].duplicates_skipped >= 1
        /\ res[w].new_inserted >= 1
        /\ contacts[<< "a@acme.com", "client_1" >>].disposition_status = REPLIED_HARD_NO
        /\ contacts[<< "a@acme.com", "client_1" >>].email_suppressed

(***************************************************************************)
(* tam_tracker.py: TAMTracker.get_health and capture_snapshot, over        *)
(* Database.get_tam_pools, get_burn_rate and insert_tam_snapshot.          *)
(***************************************************************************)
\* get_burn_rate(client_id): the history rows of the last 7 days whose
\* new_status is in_sequence; client_id NoOwner stands for None.
get_burn_rate(htbl, client_id, at) ==
    Cardinality({ i \in DOMAIN htbl :
                    /\ htbl[i].new_status = IN_SEQUENCE
                    /\ htbl[i].created_at > at - 7
                    /\ client_id = NoOwner \/ htbl[i].contact_client_id = client_id })

\* exhaustion_eta_weeks None.
NoEta == [ null |-> TRUE ]

\* C31 mutant: the thresholds compared with <= in place of <.
get_health_inclusive(pools, burn_rate) ==
    LET available == pools.available_now
        eta == IF burn_rate > 0
               THEN [ num |-> available, den |-> burn_rate ]
               ELSE NoEta
        health_status ==
            IF eta = NoEta THEN "healthy"
            ELSE IF eta.num <= tam_critical_weeks * eta.den THEN "critical"
            ELSE IF eta.num <= tam_warning_weeks * eta.den THEN "warning"
            ELSE "healthy"
    IN  pools @@ [ burn_rate_weekly |-> burn_rate,
                   exhaustion_eta_weeks |-> eta,
                   health_status |-> health_status ]

\* TAMTracker.get_health lines 22-45, from the pools and the burn rate the
\* store returned.  eta is the quotient available / burn_rate, kept as the
\* fraction num / den; eta < n is num < n * den, which is what the division
\* and comparison of the floating-point numbers give for counts of rows.
get_health(pools, burn_rate) ==
    LET available == pools.available_now
        eta == IF burn_rate > 0
               THEN [ num |-> available, den |-> burn_rate ]
               ELSE NoEta
        health_status ==
            IF eta = NoEta THEN "healthy"
            ELSE IF eta.num < tam_critical_weeks * eta.den THEN "critical"
            ELSE IF eta.num < tam_warning_weeks * eta.den THEN "warning"
            ELSE "healthy"
    IN  pools @@ [ burn_rate_weekly |-> burn_rate,
                   exhaustion_eta_weeks |-> eta,
                   health_status |-> health_status ]

\* Database.insert_tam_snapshot: INSERT ... ON CONFLICT (snapshot_date,
\* client_id) DO UPDATE.  The conflict is one with the UNIQUE(snapshot_date,
\* client_id) constraint of the table, and in a UNIQUE constraint of SQLite
\* a NULL is distinct from every value, another NULL included: a row whose
\* client_id is NULL (NoOwner) conflicts with no row.
insert_tam_snapshot(tbl, snapshot, client_id, today) ==
    LET same == { i \in DOMAIN tbl :
                    /\ tbl[i].snapshot_date = today
                    /\ tbl[i].client_id = client_id
                    /\ client_id # NoOwner }
    IN  IF same = {}
        THEN Append(tbl, [ snapshot_date |-> today, client_id |-> client_id,
                           values |-> snapshot ])
        ELSE [ i \in DOMAIN tbl |->
                 IF i \in same THEN [ tbl[i] EXCEPT !.values = snapshot ] ELSE tbl[i] ]

MaxSnapshots == 3
MaxTamRows == 2

\* TAMTracker.capture_snapshot(client_id), one caller at a time: get_health
\* over the store, then insert_tam_snapshot of its numbers without
\* health_status, under today's date.
CaptureSnapshot(w) ==
    /\ pc[w] = "idle" /\ w \in active
    /\ Len(tam_snapshots) < MaxSnapshots
    /\ \E client_id \in Clients \cup { NoOwner } :
        LET health == get_health(get_tam_pools(contacts, client_id, now),
                                 get_burn_rate(history, client_id, now))
            snapshot == [ f \in DOMAIN health \ { "health_status" } |-> health[f] ]
        IN  /\ tam_snapshots' = insert_tam_snapshot(tam_snapshots, snapshot, client_id, now)
            /\ loc' = [ loc EXCEPT ![w] = [ op |-> "capture_snapshot",
                                            client_id |-> client_id ] ]
            /\ res' = [ res EXCEPT ![w] = [ kind |-> "ok" ] @@ health ]
    /\ UNCHANGED <<contacts, companies, history, assignments, ownership_log,
                   now, active, pc>>

SpecTam ==
    InitApi /\ [][
        \/ Tick
        \/ \E w \in Workers :
            \/ StartTransition(w, ImportedKeys,
                               { IN_SEQUENCE, COMPLETED_NO_RESPONSE, REPLIED_HARD_NO },
                               MaxTamRows)
            \/ TransitionSteps(w)
            \/ SuppressSteps(w)
            \/ CaptureSnapshot(w)
    ]_vars

\* The rows of tam_snapshots for a date and a client.
SnapshotsOf(tbl, today, client_id) ==
    { i \in DOMAIN tbl : tbl[i].snapshot_date = today /\ tbl[i].client_id = client_id }

\* C32: after a capture_snapshot call, and so after any number of them on
\* one date, tam_snapshots holds exactly one row for the date and the
\* client_id of the call, the global snapshot with client_id null included,
\* and that row holds the values of this latest capture.
C32_OneSnapshotPerDay ==
    [][ \A w \in Workers :
          ( /\ pc' = pc /\ now' = now
            /\ loc'[w].op = "capture_snapshot"
            /\ (loc'[w] # loc[w] \/ res'[w] # res[w]
                    \/ tam_snapshots' # tam_snapshots) )
             => LET rows == SnapshotsOf(tam_snapshots', now, loc'[w].client_id) IN
                /\ Cardinality(rows) = 1
                /\ \A i \in rows :
                      \A f \in DOMAIN tam_snapshots'[i].values :
                          tam_snapshots'[i].values[f] = res'[w][f] ]_vars

(***************************************************************************)
(* TAMTracker.get_health on its own: the pools and the burn rate the store *)
(* returned are any counts within the bounds, and one call classifies.     *)
(***************************************************************************)
MaxAvailable == 20
MaxBurn == 4

InitHealth ==
    /\ InitDb
    /\ active = { "w1" }
    /\ res = [ w \in Workers |-> NoResult ]
    /\ \E available \in 0..MaxAvailable, in_sequence \in 0..1, burn_rate \in 0..MaxBurn :
        /\ pc = [ w \in Workers |-> IF w = "w1" THEN "get_health" ELSE "idle" ]
        /\ loc = [ w \in Workers |->
                     IF w = "w1"
                     THEN [ op |-> "get_health",
                            pools |-> [ total_universe |-> available + in_sequence,
                                        never_touched |-> available,
                                        in_cooldown |-> 0,
                                        available_now |-> available,
                                        permanent_suppress |-> 0,
                                        in_sequence |-> in_sequence,
                                        won_customer |-> 0 ],
                            burn_rate |-> burn_rate ]
                     ELSE Idle ]

\* get_health lines 22-45, after its two store calls returned.
GetHealth(w) ==
    /\ pc[w] = "get_health"
    /\ res' = [ res EXCEPT ![w] = get_health(loc[w].pools, loc[w].burn_rate) ]
    /\ pc' = [ pc EXCEPT ![w] = "health" ]
    /\ loc' = loc
    /\ UNCHANGED <<db, now, active>>

SpecHealth == InitHealth /\ [][\E w \in Workers : GetHealth(w)]_vars

====
